---- MODULE Spec2Model ----
(***************************************************************************)
(* Model of the EvoAI agentic commerce workflow (LangGraph state machine   *)
(* router -> agent <-> tool_executor -> policy_guard -> responder) and of  *)
(* its deterministic tools, chiefly the 60-minute order_cancel policy.     *)
(*                                                                         *)
(* Text is modelled as a sequence of one-character strings so that regex   *)
(* and substring tests are computed rather than assumed.  Time is counted  *)
(* in whole seconds from 2025-09-06T00:00:00Z.                             *)
(***************************************************************************)
EXTENDS Integers, Sequences, FiniteSets, TLC

VARIABLES
    pc,               \* next node of the run: idle/router/agent/tool_executor/policy_guard/responder/END/failed
    messages,         \* AgentState.messages
    intent,           \* AgentState.intent ("unset" = key absent)
    tools_called,     \* AgentState.tools_called (<<>> = key absent)
    evidence,         \* AgentState.evidence     (<<>> = key absent)
    policy_decision,  \* AgentState.policy_decision (NoDecision = None / absent)
    final_message,    \* AgentState.final_message ("unset" = key absent)
    respond_in,       \* history: what the responder handed to its generation call
    path,             \* history: sequence of node names executed in this run
    last_batch,       \* history: names of the batch the last tool_executor step ran
    finished,         \* history: order in which that batch's invocations finished
    invocations,      \* history: number of individual tool invocations of this run
    rounds,           \* history: number of tool_executor steps of this run
    error,            \* "none" or the exception that ended the run
    clock,            \* datetime.now(timezone.utc) in seconds
    orders_file,      \* content of data/orders.json as json.load sees it
    tool_in,          \* arguments of a direct tool call
    tool_out,         \* its result
    products_file,    \* content of data/products.json as json.load sees it
    seen,             \* history: the direct tool calls made so far, each with its outcome
    ncalls,           \* history: number of direct tool calls made so far
    history,          \* main(): the session's `messages` list
    turns,            \* main(): conversation_count
    first_run         \* history: the completed run that the present run repeats

vars == <<pc, messages, intent, tools_called, evidence, policy_decision,
          final_message, respond_in, path, last_batch, finished, invocations, rounds, error,
          clock, orders_file, tool_in, tool_out, products_file, seen, ncalls, first_run,
          history, turns>>

runVars == <<pc, messages, intent, tools_called, evidence, policy_decision,
             final_message, respond_in, path, last_batch, finished, invocations, rounds, error>>

\* what a node of the graph never touches
envVars == <<clock, orders_file, tool_in, tool_out, products_file, seen, ncalls, first_run,
             history, turns>>

-----------------------------------------------------------------------------
(* Bounds of the model *)

\* tool rounds of a run during which the reasoning step may ask for any
\* batch of the menu; in later rounds it repeats one fixed request
MaxRounds == 2

-----------------------------------------------------------------------------
(* Text helpers *)

Digits == {"0", "1", "2", "3", "4", "5", "6", "7", "8", "9"}

Upper ==
    <<"A", "B", "C", "D", "E", "F", "G", "H", "I", "J", "K", "L", "M",
      "N", "O", "P", "Q", "R", "S", "T", "U", "V", "W", "X", "Y", "Z">>

LowerOf ==
    <<"a", "b", "c", "d", "e", "f", "g", "h", "i", "j", "k", "l", "m",
      "n", "o", "p", "q", "r", "s", "t", "u", "v", "w", "x", "y", "z">>

Letters == {Upper[i] : i \in 1..26} \cup {LowerOf[i] : i \in 1..26}

Whitespace == {" ", "\n", "\t"}

\* str.lower(), character by character
LowerChar(c) ==
    IF \E i \in 1..26 : Upper[i] = c
    THEN LowerOf[CHOOSE i \in 1..26 : Upper[i] = c]
    ELSE c

lower(s) == [i \in 1..Len(s) |-> LowerChar(s[i])]

\* str.strip(): leading and trailing whitespace removed
RECURSIVE strip(_)
strip(s) ==
    IF s = <<>> THEN s
    ELSE IF Head(s) \in Whitespace THEN strip(Tail(s))
    ELSE IF s[Len(s)] \in Whitespace THEN strip(SubSeq(s, 1, Len(s) - 1))
    ELSE s

\* sub occurs in s as a contiguous run (Python's `sub in s`)
Contains(s, sub) ==
    \E i \in 0..(Len(s) - Len(sub)) :
        \A j \in 1..Len(sub) : s[i + j] = sub[j]

-----------------------------------------------------------------------------
(* ValidationLibrary *)

\* where `$` may match: at the end, or just before one final newline
MatchEnds(s) ==
    {Len(s)} \cup (IF s # <<>> /\ s[Len(s)] = "\n" THEN {Len(s) - 1} ELSE {})

LocalChars  == Letters \cup Digits \cup {".", "_", "%", "+", "-"}
DomainChars == Letters \cup Digits \cup {".", "-"}

\* re.match(r"^[a-zA-Z0-9._%+-]+@[a-zA-Z0-9.-]+\.[a-zA-Z]{2,}$", email)
validate_email(email) ==
    \E n \in MatchEnds(email) : \E at \in 2..n : \E dot \in (at + 2)..(n - 2) :
        /\ email[at] = "@"
        /\ email[dot] = "."
        /\ \A i \in 1..(at - 1) : email[i] \in LocalChars
        /\ \A i \in (at + 1)..(dot - 1) : email[i] \in DomainChars
        /\ \A i \in (dot + 1)..n : email[i] \in Letters

\* re.match(r"^\d{5,6}$", zip_code.strip())
validate_zip_code(zip_code) ==
    LET z == strip(zip_code) IN
    \E n \in MatchEnds(z) :
        /\ n \in 5..6
        /\ \A i \in 1..n : z[i] \in Digits

\* re.match(r"^A\d{4}$", order_id): `$` also matches before one final newline
validate_order_id(order_id) ==
    /\ 5 \in MatchEnds(order_id)
    /\ order_id[1] = "A"
    /\ \A i \in 2..5 : order_id[i] \in Digits

-----------------------------------------------------------------------------
(* Timestamps: an ISO-8601 string is the record of its fields.             *)
(* tz is "Z", a numeric offset, or "" for a string without offset.         *)

TzOffsetSeconds(tz) ==
    CASE tz = "Z"      -> 0          \* .replace("Z", "+00:00")
      [] tz = "+00:00" -> 0
      [] tz = "+05:30" -> 19800
      [] OTHER         -> 0

Iso(d, h, m, s, tz) == [kind |-> "iso", d |-> d, h |-> h, m |-> m, s |-> s, tz |-> tz]

NoneArg   == [kind |-> "none",    d |-> 0, h |-> 0, m |-> 0, s |-> 0, tz |-> ""]
EmptyArg  == [kind |-> "empty",   d |-> 0, h |-> 0, m |-> 0, s |-> 0, tz |-> ""]
GarbageTs == [kind |-> "garbage", d |-> 0, h |-> 0, m |-> 0, s |-> 0, tz |-> ""]

\* datetime.fromisoformat(text.replace("Z", "+00:00")):
\* ValueError for text that is no ISO timestamp or has a field out of range;
\* otherwise an aware datetime (UTC instant) or a naive one (wall time).
fromisoformat(ts) ==
    IF ts.kind # "iso" \/ ts.h > 23 \/ ts.m > 59 \/ ts.s > 59
    THEN [ok |-> FALSE, aware |-> FALSE, t |-> 0]
    ELSE [ok    |-> TRUE,
          aware |-> ts.tz # "",
          t     |-> ts.d * 86400 + ts.h * 3600 + ts.m * 60 + ts.s
                    - TzOffsetSeconds(ts.tz)]

\* now.isoformat() of an aware datetime parsed above: same instant, offset kept
isoformat(ts) == IF ts.tz = "Z" THEN [ts EXCEPT !.tz = "+00:00"] ELSE ts

\* datetime rebuilt from a count of seconds (UTC): datetime.now(timezone.utc)
FromSeconds(t) ==
    Iso(t \div 86400, (t % 86400) \div 3600, (t % 3600) \div 60, t % 60, "+00:00")

-----------------------------------------------------------------------------
(* Order store: data/orders.json *)

A1002 == <<"A", "1", "0", "0", "2">>
A1003 == <<"A", "1", "0", "0", "3">>

AlexEmail == <<"a", "l", "e", "x", "@", "e", "x", "a", "m", "p", "l", "e", ".", "c", "o", "m">>
MiraEmail == <<"m", "i", "r", "a", "@", "e", "x", "a", "m", "p", "l", "e", ".", "c", "o", "m">>

Order(id, email, created_at) == [order_id |-> id, email |-> email, created_at |-> created_at]

\* the two orders the tests and the evaluation prompts use
Orders ==
    << Order(A1002, AlexEmail, Iso(0, 13, 5, 0, "Z")),
       Order(A1003, MiraEmail, Iso(1, 11, 55, 0, "Z")) >>

OrdersFileOk      == [status |-> "ok",      orders |-> Orders]
OrdersFileMissing == [status |-> "missing", orders |-> <<>>]
OrdersFileCorrupt == [status |-> "corrupt", orders |-> <<>>]

\* next((o for o in orders if o["order_id"] == order_id), None): index of the
\* first match, 0 for None
FirstOrderWithId(orders, order_id) ==
    IF \E i \in 1..Len(orders) : orders[i].order_id = order_id
    THEN CHOOSE i \in 1..Len(orders) :
            /\ orders[i].order_id = order_id
            /\ \A j \in 1..(i - 1) : orders[j].order_id # order_id
    ELSE 0

-----------------------------------------------------------------------------
(* Product store: data/products.json *)

Product(id, title, price, tags) == [id |-> id, title |-> title, price |-> price, tags |-> tags]

MidiDress == <<"m", "i", "d", "i", " ", "d", "r", "e", "s", "s">>
MaxiDress == <<"m", "a", "x", "i", " ", "d", "r", "e", "s", "s">>
SilkScarf == <<"s", "i", "l", "k", " ", "s", "c", "a", "r", "f">>

TagWedding == <<"w", "e", "d", "d", "i", "n", "g">>
TagMidi    == <<"m", "i", "d", "i">>
TagParty   == <<"p", "a", "r", "t", "y">>

Products ==
    << Product("P1", MidiDress, 95,  <<TagWedding, TagMidi>>),
       Product("P2", MidiDress, 150, <<TagMidi, TagParty>>),
       Product("P3", MaxiDress, 110, <<TagWedding>>),
       Product("P4", SilkScarf, 40,  <<TagParty>>) >>

ProductsFileOk      == [status |-> "ok",      products |-> Products]
ProductsFileMissing == [status |-> "missing", products |-> <<>>]
ProductsFileCorrupt == [status |-> "corrupt", products |-> <<>>]

-----------------------------------------------------------------------------
(* CatalogTools: product_search, size_recommender *)

\* s.split(sep): the pieces between occurrences of the one-character sep
RECURSIVE split(_, _)
split(s, sep) ==
    IF \A i \in 1..Len(s) : s[i] # sep THEN <<s>>
    ELSE LET k == CHOOSE i \in 1..Len(s) : s[i] = sep /\ \A j \in 1..(i - 1) : s[j] # sep
         IN  <<SubSeq(s, 1, k - 1)>> \o split(SubSeq(s, k + 1, Len(s)), sep)

\* elements of seq, in order, whose index i has keep[i]
Filter(seq, keep) ==
    LET I == {i \in 1..Len(seq) : keep[i]} IN
    [k \in 1..Cardinality(I) |->
        seq[CHOOSE i \in I : Cardinality({j \in I : j < i}) = k - 1]]

IsIn(x, seq) == \E i \in 1..Len(seq) : seq[i] = x

\* sorted(seq, key=...) with before[i, j] meaning key(seq[i]) < key(seq[j]);
\* the sort is stable: elements with equal keys keep their order
sorted(seq, before) ==
    LET rank(i) == Cardinality({j \in 1..Len(seq) :
                        \/ before[j, i]
                        \/ ~before[i, j] /\ j < i}) + 1
    IN  [k \in 1..Len(seq) |-> seq[CHOOSE i \in 1..Len(seq) : rank(i) = k]]

\* the call did not return: exc left the tool function
Raised(exc) == [raised |-> exc]

NoPrice == [given |-> FALSE, v |-> 0]
PriceMax(v) == [given |-> TRUE, v |-> v]

\* the second pass: products with at least one requested tag, until two are held
RECURSIVE partial_tag_pass(_, _, _, _)
partial_tag_pass(products, results, price_max, tags_list) ==
    IF products = <<>> THEN results
    ELSE LET p == Head(products) IN
         IF price_max.given /\ p.price > price_max.v
         THEN partial_tag_pass(Tail(products), results, price_max, tags_list)
         ELSE IF IsIn(p, results)
         THEN partial_tag_pass(Tail(products), results, price_max, tags_list)
         ELSE LET grown == IF \E i \in 1..Len(tags_list) : IsIn(tags_list[i], p.tags)
                           THEN Append(results, p) ELSE results
              IN  IF Len(grown) >= 2 THEN grown
                  ELSE partial_tag_pass(Tail(products), grown, price_max, tags_list)

\* tags.split(",") with every piece stripped; no list for None or ""
parse_tags(tags) ==
    IF tags = <<>> THEN <<>>
    ELSE LET raw == split(tags, ",") IN [i \in 1..Len(raw) |-> strip(raw[i])]

\* the price check every pass makes first
affordable(p, price_max) == ~(price_max.given /\ p.price > price_max.v)

\* the first pass: all requested tags when tags are given, else the query
\* as a substring of the title
strict_match(p, query, price_max, tags_list) ==
    /\ affordable(p, price_max)
    /\ IF tags_list # <<>>
       THEN \A i \in 1..Len(tags_list) : IsIn(tags_list[i], p.tags)
       ELSE query # <<>> /\ Contains(lower(p.title), lower(query))

strict_pass(products, query, price_max, tags_list) ==
    Filter(products, [i \in 1..Len(products) |->
                         strict_match(products[i], query, price_max, tags_list)])

with_partial_tags(products, results, price_max, tags_list) ==
    IF Len(results) < 2 /\ tags_list # <<>> /\ Len(tags_list) > 1
    THEN partial_tag_pass(products, results, price_max, tags_list)
    ELSE results

\* a third pass that forgets the price
broader_match_any_price(p, results, price_max) ==
    /\ ~IsIn(p, results)
    /\ \/ Contains(lower(p.title), <<"d", "r", "e", "s", "s">>)
       \/ IsIn(TagMidi, p.tags)

\* the third pass takes dresses and midi items within the price
broader_match(p, results, price_max) ==
    /\ p.price <= price_max.v
    /\ ~IsIn(p, results)
    /\ \/ Contains(lower(p.title), <<"d", "r", "e", "s", "s">>)
       \/ IsIn(TagMidi, p.tags)

sorted_by_price(seq) ==
    sorted(seq, [i, j \in 1..Len(seq) |-> seq[i].price < seq[j].price])

\* seq[:n]
take(seq, n) == SubSeq(seq, 1, IF Len(seq) < n THEN Len(seq) ELSE n)

with_broader(products, results, price_max) ==
    IF Len(results) < 2 /\ price_max.given
    THEN results \o take(sorted_by_price(Filter(products,
                              [i \in 1..Len(products) |->
                                  broader_match(products[i], results, price_max)])),
                         2 - Len(results))
    ELSE results

tag_score(p, tags_list) ==
    Cardinality({tags_list[i] : i \in 1..Len(tags_list)} \cap {p.tags[j] : j \in 1..Len(p.tags)})

\* the older copy's key: the price alone
sort_key_by_price(a, b, tags_list) == a.price < b.price

\* sort_key(a) < sort_key(b)
sort_key_before(a, b, tags_list) ==
    IF tags_list # <<>>
    THEN \/ tag_score(a, tags_list) > tag_score(b, tags_list)
         \/ tag_score(a, tags_list) = tag_score(b, tags_list) /\ a.price < b.price
    ELSE a.price < b.price

final_results(results, tags_list) ==
    take(sorted(results, [i, j \in 1..Len(results) |->
                             sort_key_before(results[i], results[j], tags_list)]), 2)

\* the list product_search returns; the store is opened outside any try
product_search(file, query, price_max, tags) ==
    IF file.status = "missing" THEN Raised("FileNotFoundError")
    ELSE IF file.status = "corrupt" THEN Raised("JSONDecodeError")
    ELSE [products |->
            final_results(
                with_broader(file.products,
                    with_partial_tags(file.products,
                        strict_pass(file.products, query, price_max, parse_tags(tags)),
                        price_max, parse_tags(tags)),
                    price_max),
                parse_tags(tags))]

\* the advice size_recommender returns, named by the branch that gives it
size_recommender(user_input) ==
    LET u == lower(user_input)
        Has(w) == Contains(u, w)
    IN  [text |-> "size advice", advice |->
         IF Has(<<"b", "e", "t", "w", "e", "e", "n", " ", "m", "/", "l">>)
            \/ Has(<<"b", "e", "t", "w", "e", "e", "n", " ", "l", "/", "m">>)
            \/ Has(<<"m", "/", "l">>) THEN <<"M", "/", "L">>
         ELSE IF Has(<<"p", "r", "e", "f", "e", "r", " ", "l", "o", "o", "s", "e">>)
            \/ Has(<<"l", "o", "o", "s", "e", " ", "f", "i", "t">>) THEN <<"l", "o", "o", "s", "e">>
         ELSE IF Has(<<"p", "r", "e", "f", "e", "r", " ", "t", "i", "g", "h", "t">>)
            \/ Has(<<"f", "i", "t", "t", "e", "d">>)
            \/ Has(<<"f", "o", "r", "m", " ", "f", "i", "t", "t", "i", "n", "g">>) THEN <<"f", "i", "t", "t", "e", "d">>
         ELSE IF Has(<<"w", "e", "d", "d", "i", "n", "g">>)
            \/ Has(<<"f", "o", "r", "m", "a", "l">>)
            \/ Has(<<"d", "r", "e", "s", "s", "y">>) THEN <<"f", "o", "r", "m", "a", "l">>
         ELSE IF Has(<<"n", "o", "t", " ", "s", "u", "r", "e">>)
            \/ Has(<<"d", "o", "n", "'", "t", " ", "k", "n", "o", "w">>)
            \/ Has(<<"u", "n", "c", "e", "r", "t", "a", "i", "n">>) THEN <<"u", "n", "s", "u", "r", "e">>
         ELSE IF Has(<<"x", "s">>)
            \/ Has(<<"e", "x", "t", "r", "a", " ", "s", "m", "a", "l", "l">>) THEN <<"X", "S">>
         ELSE IF Has(<<"s", "m", "a", "l", "l">>) \/ Has(<<" ", "s", " ">>) THEN <<"S">>
         ELSE IF Has(<<"m", "e", "d", "i", "u", "m">>) \/ Has(<<" ", "m", " ">>) THEN <<"M">>
         ELSE IF Has(<<"l", "a", "r", "g", "e">>) \/ Has(<<" ", "l", " ">>) THEN <<"L">>
         ELSE <<"d", "e", "f", "a", "u", "l", "t">>]

-----------------------------------------------------------------------------
(* PolicyTool: order_cancel *)

\* the window of the cancellation policy, in minutes
PolicyWindowMinutes == 60

PolicyReason ==
    <<"Cancellation", "failed:", "Order", "was", "placed", "more", "than",
      "60", "minutes", "ago.">>

PolicyStatement ==
    <<"Orders", "can", "only", "be", "canceled", "within", "60", "minutes",
      "of", "placement.">>

\* a report in minutes rounded to the nearest whole minute
RoundMinutes(secs) == (secs + 30) \div 60

\* int(x) of x = secs / 60: truncation toward zero
TruncMinutes(secs) == IF secs >= 0 THEN secs \div 60 ELSE -((-secs) \div 60)

\* secs / 60 lies halfway between two tenths when secs % 6 = 3; the float
\* nearest to it lies a little above or a little below, and round() goes
\* by the float.  These are the halfway cases up to 60 minutes that round()
\* takes to the upper tenth.
HalvesRoundedUp ==
    {
      3, 27, 33, 39, 45, 63, 81, 93, 105, 111, 141, 147, 165, 171, 177,
      201, 207, 225, 231, 237, 249, 267, 279, 285, 297, 309, 327, 339, 345, 357,
      369, 387, 399, 405, 417, 429, 447, 459, 465, 477, 483, 489, 513, 519, 525,
      543, 549, 573, 579, 585, 603, 609, 633, 639, 645, 663, 669, 693, 699, 705,
      723, 729, 753, 759, 765, 783, 789, 813, 819, 825, 843, 849, 873, 879, 885,
      903, 909, 933, 939, 945, 963, 981, 993, 1005, 1011, 1023, 1041, 1053, 1065, 1071,
      1083, 1101, 1113, 1125, 1131, 1143, 1161, 1173, 1185, 1191, 1203, 1221, 1233, 1245, 1251,
      1263, 1281, 1293, 1305, 1311, 1323, 1341, 1353, 1365, 1371, 1383, 1401, 1413, 1425, 1431,
      1443, 1461, 1473, 1485, 1491, 1503, 1521, 1533, 1545, 1551, 1563, 1581, 1593, 1605, 1611,
      1623, 1641, 1653, 1665, 1671, 1683, 1701, 1713, 1725, 1731, 1743, 1761, 1773, 1785, 1791,
      1803, 1821, 1833, 1845, 1851, 1863, 1881, 1893, 1905, 1911, 1941, 1947, 1965, 1971, 1977,
      2001, 2007, 2025, 2031, 2037, 2061, 2067, 2085, 2091, 2097, 2121, 2127, 2145, 2151, 2157,
      2181, 2187, 2205, 2211, 2217, 2241, 2247, 2265, 2271, 2277, 2301, 2307, 2325, 2331, 2337,
      2361, 2367, 2385, 2391, 2397, 2421, 2427, 2445, 2451, 2457, 2481, 2487, 2505, 2511, 2517,
      2541, 2547, 2565, 2571, 2577, 2601, 2607, 2625, 2631, 2637, 2661, 2667, 2685, 2691, 2697,
      2721, 2727, 2745, 2751, 2757, 2781, 2787, 2805, 2811, 2817, 2841, 2847, 2865, 2871, 2877,
      2901, 2907, 2925, 2931, 2937, 2961, 2967, 2985, 2991, 2997, 3021, 3027, 3045, 3051, 3057,
      3081, 3087, 3105, 3111, 3117, 3141, 3147, 3165, 3171, 3177, 3201, 3207, 3225, 3231, 3237,
      3261, 3267, 3285, 3291, 3297, 3321, 3327, 3345, 3351, 3357, 3381, 3387, 3405, 3411, 3417,
      3441, 3447, 3465, 3471, 3477, 3501, 3507, 3525, 3531, 3537, 3561, 3567, 3585, 3591, 3597 }

\* round(secs / 60, 1) in tenths of a minute, for secs >= 0
RoundTenthsUp(secs) ==
    LET lo == secs \div 6
        r  == secs % 6
    IN  IF r < 3 THEN lo
        ELSE IF r > 3 THEN lo + 1
        ELSE IF secs \in HalvesRoundedUp THEN lo + 1 ELSE lo

\* round(secs / 60, 1) in tenths of a minute; round(-x) = -round(x)
RoundTenths(secs) == IF secs >= 0 THEN RoundTenthsUp(secs) ELSE -RoundTenthsUp(-secs)

\* a plausible slip: the elapsed time cut to whole minutes before the test
WithinWindowWholeMinutes(secs) == TruncMinutes(secs) <= PolicyWindowMinutes

\* a window that does not open before the order exists
WithinWindowFromCreation(secs) == 0 <= secs /\ secs <= PolicyWindowMinutes * 60

\* the comparison turned around
WithinWindowReversed(secs) == secs > PolicyWindowMinutes * 60

\* time_diff_minutes <= 60 with time_diff_minutes = secs / 60 (fractional)
WithinWindow(secs) == secs <= PolicyWindowMinutes * 60

CancelError(tag) == [success |-> FALSE, error |-> tag]

\* a tool that never looks at the argument and always reads the clock
resolve_now_ignores_argument(simulated_now, now_utc) == FromSeconds(now_utc)

\* the text `now` is parsed from: simulated_now if given (not None, not ""),
\* else datetime.now(timezone.utc)
resolve_now(simulated_now, now_utc) ==
    IF simulated_now.kind \notin {"none", "empty"} THEN simulated_now
    ELSE FromSeconds(now_utc)

\* a cancellation that deletes the order it cancelled from the store
orders_written_on_success(file, call, result) ==
    IF call.name = "order_cancel" /\ "success" \in DOMAIN result /\ result.success
    THEN [file EXCEPT !.orders = Filter(file.orders, [i \in 1..Len(file.orders) |->
                                       file.orders[i].order_id # call.args.order_id])]
    ELSE file

\* data/orders.json after a tool call: every tool opens it for reading only
orders_written(file, call, result) == file

\* data/products.json after a tool call: opened for reading only
products_written(catalog, call, result) == catalog

order_cancel(file, order_id, simulated_now, now_utc) ==
    IF ~validate_order_id(order_id) THEN CancelError("Invalid order ID format")
    ELSE IF file.status # "ok" THEN CancelError("Unable to access order database")
    ELSE LET i == FirstOrderWithId(file.orders, order_id) IN
    IF i = 0 THEN CancelError("Order not found in the system")
    ELSE LET created == fromisoformat(file.orders[i].created_at)
             nowTs   == resolve_now(simulated_now, now_utc)
             now     == fromisoformat(nowTs)
         IN
    IF ~created.ok THEN CancelError("Error processing order timestamps")
    ELSE IF ~now.ok THEN CancelError("Invalid timestamp format")
    ELSE IF now.aware # created.aware THEN Raised("TypeError")
    ELSE LET secs == now.t - created.t IN
         IF WithinWindow(secs)
         THEN [success |-> TRUE,
               message |-> "Order has been successfully canceled.",
               canceled_at |-> isoformat(nowTs),
               minutes_since_order |-> [tenths |-> RoundTenths(secs)]]
         ELSE [success |-> FALSE,
               reason |-> PolicyReason,
               minutes_since_order |-> [whole |-> TruncMinutes(secs)],
               policy |-> PolicyStatement]

-----------------------------------------------------------------------------
(* LookupTools: order_lookup, eta *)

LookupError(tag) == [error |-> tag]

order_lookup(file, order_id, email) ==
    IF ~validate_order_id(order_id) THEN LookupError("Invalid order ID format")
    ELSE IF ~validate_email(email) THEN LookupError("Invalid email format")
    ELSE IF file.status # "ok" THEN LookupError("Unable to access order database")
    ELSE IF \E i \in 1..Len(file.orders) :
               file.orders[i].order_id = order_id /\ file.orders[i].email = email
         THEN file.orders[CHOOSE i \in 1..Len(file.orders) :
                  /\ file.orders[i].order_id = order_id /\ file.orders[i].email = email
                  /\ \A j \in 1..(i - 1) :
                        ~(file.orders[j].order_id = order_id /\ file.orders[j].email = email)]
         ELSE LookupError("Order not found")

\* the two sentences eta can return, each quoting the zip code it was given
eta(zip_code) ==
    IF ~validate_zip_code(zip_code)
    THEN [text |-> "Invalid zip code format", zip |-> zip_code]
    ELSE [text |-> "Shipping typically takes 2-5 business days", zip |-> zip_code]

-----------------------------------------------------------------------------
(* Direct tool calls: the inputs a caller can pass *)

OrderIdInputs ==
    { A1002, A1003,
      <<"A", "9", "9", "9", "9">>,            \* well-formed, not in the store
      <<"A", "1", "0", "0">>,                 \* too short
      <<"B", "1", "0", "0", "3">>,            \* wrong prefix
      <<"A", "1", "0", "0", "3", "\n">> }     \* trailing newline

TimestampInputs ==
    { Iso(d, h, m, s, tz) :
        d \in {0, 1}, h \in {11, 12, 13, 18, 24}, m \in {5, 54, 55, 56},
        s \in {0, 1, 59}, tz \in {"Z", "+00:00", "+05:30", ""} }
    \cup { Iso(1, 11, 55, s, "Z") : s \in {3, 9, 15} }     \* halves of a tenth after A1003
    \cup {NoneArg, EmptyArg, GarbageTs}

\* instants the real clock may show when a call is made
ClockInputs == {1 * 86400 + 12 * 3600 + 55 * 60, 1 * 86400 + 12 * 3600 + 55 * 60 + 1}

NoCall   == [tool |-> "none"]
NoResult == [none |-> TRUE]

NoDecision == [none |-> TRUE]

NoGeneration == [none |-> TRUE]

\* no run has been completed before the present one
NoRun == [none |-> TRUE]

IdleRun ==
    /\ pc = "idle"
    /\ messages = <<>>
    /\ intent = "unset"
    /\ tools_called = <<>>
    /\ evidence = <<>>
    /\ policy_decision = NoDecision
    /\ final_message = "unset"
    /\ respond_in = NoGeneration
    /\ path = <<>>
    /\ last_batch = <<>>
    /\ finished = <<>>
    /\ invocations = 0
    /\ rounds = 0
    /\ error = "none"

InitTools ==
    /\ IdleRun
    /\ clock \in ClockInputs
    /\ orders_file \in {OrdersFileOk, OrdersFileMissing, OrdersFileCorrupt}
    /\ tool_in \in { [tool |-> "order_cancel", order_id |-> id, simulated_now |-> ts] :
                        id \in OrderIdInputs, ts \in TimestampInputs }
    /\ tool_out = NoResult
    /\ products_file = ProductsFileOk
    /\ seen = {}
    /\ ncalls = 0
    /\ history = <<>>
    /\ turns = 0
    /\ first_run = NoRun

\* order_cancel(order_id, simulated_now) called directly, as the unit tests do
CallOrderCancel ==
    /\ tool_in.tool = "order_cancel"
    /\ tool_out = NoResult
    /\ tool_out' = order_cancel(orders_file, tool_in.order_id, tool_in.simulated_now, clock)
    /\ UNCHANGED <<runVars, clock, orders_file, tool_in, products_file, seen, ncalls, first_run,
                   history, turns>>

NextTools == CallOrderCancel

SpecTools == InitTools /\ [][NextTools]_vars

-----------------------------------------------------------------------------
(* Classifier: deterministic keyword rules, then the generation fallback *)

order_keywords ==
    << <<"o", "r", "d", "e", "r">>,
       <<"c", "a", "n", "c", "e", "l">>,
       <<"c", "a", "n", "c", "e", "l", "l", "a", "t", "i", "o", "n">>,
       <<"a", "1", "0", "0", "1">>,
       <<"a", "1", "0", "0", "2">>,
       <<"a", "1", "0", "0", "3">>,
       <<"o", "r", "d", "e", "r", "_", "i", "d">>,
       <<"e", "m", "a", "i", "l">>,
       <<"r", "e", "f", "u", "n", "d">>,
       <<"r", "e", "t", "u", "r", "n">> >>

product_keywords ==
    << <<"d", "r", "e", "s", "s">>,
       <<"p", "r", "o", "d", "u", "c", "t">>,
       <<"w", "e", "d", "d", "i", "n", "g">>,
       <<"m", "i", "d", "i">>,
       <<"p", "r", "i", "c", "e">>,
       <<"s", "i", "z", "e">>,
       <<"e", "t", "a">>,
       <<"s", "h", "i", "p", "p", "i", "n", "g">>,
       <<"a", "v", "a", "i", "l", "a", "b", "l", "e">>,
       <<"r", "e", "c", "o", "m", "m", "e", "n", "d">>,
       <<"c", "o", "m", "p", "a", "r", "e">>,
       <<"z", "i", "p">> >>

guardrail_keywords ==
    << <<"d", "i", "s", "c", "o", "u", "n", "t">>,
       <<"c", "o", "d", "e">>,
       <<"c", "o", "u", "p", "o", "n">>,
       <<"p", "r", "o", "m", "o">>,
       <<"s", "a", "l", "e">> >>

\* any(keyword in question_lower for keyword in keywords)
AnyKeyword(question_lower, keywords) ==
    \E k \in 1..Len(keywords) : Contains(question_lower, keywords[k])

\* a rule set whose last rule is missing: such text goes to the fallback
deterministic_keyword_routing_no_guardrail(question) ==
    LET question_lower == lower(question) IN
    IF AnyKeyword(question_lower, order_keywords) THEN "order_help"
    ELSE IF AnyKeyword(question_lower, product_keywords) THEN "product_assist"
    ELSE "none"

\* a rule set that tries the product rule before the order rule
deterministic_keyword_routing_product_first(question) ==
    LET question_lower == lower(question) IN
    IF AnyKeyword(question_lower, product_keywords) THEN "product_assist"
    ELSE IF AnyKeyword(question_lower, order_keywords) THEN "order_help"
    ELSE IF AnyKeyword(question_lower, guardrail_keywords) THEN "other"
    ELSE "none"

\* "none" stands for Python's None
deterministic_keyword_routing(question) ==
    LET question_lower == lower(question) IN
    IF AnyKeyword(question_lower, order_keywords) THEN "order_help"
    ELSE IF AnyKeyword(question_lower, product_keywords) THEN "product_assist"
    ELSE IF AnyKeyword(question_lower, guardrail_keywords) THEN "other"
    ELSE "none"

Intents == {"product_assist", "order_help", "other"}

(* A reply of the generation call, by what the code looks at:              *)
(*   raises - "none", or the exception get_llm()/invoke() raised           *)
(*   match  - re.search(r'\{.*\}') finds a braced span in the text         *)
(*   loads  - json.loads of that span succeeds                             *)
(*   obj    - the object it yields (a record; <<>> is the empty object)    *)
RouterReply(raises, match, loads, obj) ==
    [raises |-> raises, match |-> match, loads |-> loads, obj |-> obj]

RouterReplies ==
    { RouterReply("none", TRUE, TRUE, [destination |-> d]) :
          d \in Intents \cup {"billing"} }
    \cup { RouterReply("none", TRUE, TRUE, [route |-> "order_help"]),   \* no destination key
           RouterReply("none", TRUE, TRUE, <<>>),                        \* {}
           RouterReply("none", TRUE, FALSE, <<>>),                       \* braces, not JSON
           RouterReply("none", FALSE, FALSE, <<>>),                      \* no braces at all
           RouterReply("ValueError", FALSE, FALSE, <<>>),                \* get_llm(): missing configuration
           RouterReply("GenerationError", FALSE, FALSE, <<>>) }          \* invoke() fails

\* extract_json_from_string(text): the object found, or none (Python's None)
extract_json_from_string(reply) ==
    [some |-> reply.match /\ reply.loads, obj |-> reply.obj]

\* the destination router_node derives from the fallback's reply
destination_of(reply) ==
    LET route_json == extract_json_from_string(reply) IN
    IF /\ route_json.some
       /\ DOMAIN route_json.obj # {}              \* a non-empty dict is truthy
       /\ "destination" \in DOMAIN route_json.obj
    THEN IF route_json.obj.destination \notin Intents THEN "other"
         ELSE route_json.obj.destination
    ELSE "other"

-----------------------------------------------------------------------------
(* Messages, tool requests and tool results *)

NoId == [r |-> 0, i |-> 0]

HumanMessage(chars) ==
    [role |-> "user", content |-> [chars |-> chars], tool_calls |-> <<>>, tool_call_id |-> NoId]

AIMessage(text, tool_calls) ==
    [role |-> "assistant", content |-> [llm |-> text], tool_calls |-> tool_calls, tool_call_id |-> NoId]

ToolMessage(content, tool_call_id) ==
    [role |-> "tool", content |-> content, tool_calls |-> <<>>, tool_call_id |-> tool_call_id]

\* texts in which the reply asks for a tool in writing, none of them a
\* request the provider hands over as a tool call: a fenced block that is
\* not JSON, and a fenced object that lacks the tool_name key
UnparsedTexts == {"fenced_invalid_json", "fenced_without_tool_name"}

Last(seq) == seq[Len(seq)]

\* tools = [product_search, size_recommender, eta, order_lookup, order_cancel]
ToolRegistry == {"product_search", "size_recommender", "eta", "order_lookup", "order_cancel"}

Zip560001 == <<"5", "6", "0", "0", "0", "1">>

\* "Current time is 2025-09-07T12:30:00Z"
PromptNow == Iso(1, 12, 30, 0, "Z")

LookupCall        == [name |-> "order_lookup", args |-> [order_id |-> A1003, email |-> MiraEmail]]
CancelAllowedCall == [name |-> "order_cancel", args |-> [order_id |-> A1003, simulated_now |-> PromptNow]]
CancelBlockedCall == [name |-> "order_cancel", args |-> [order_id |-> A1002, simulated_now |-> PromptNow]]
CancelBadIdCall   == [name |-> "order_cancel", args |-> [order_id |-> <<"A", "1", "0", "0">>, simulated_now |-> PromptNow]]
CancelNaiveCall   == [name |-> "order_cancel", args |-> [order_id |-> A1003, simulated_now |-> Iso(1, 12, 30, 0, "")]]
EtaCall           == [name |-> "eta", args |-> [zip_code |-> Zip560001]]
UnknownCall       == [name |-> "refund_order", args |-> [order_id |-> A1003]]

\* the batches of tool requests a reply of the reasoning step may carry
BatchMenu ==
    { <<LookupCall>>, <<EtaCall>>, <<UnknownCall>>, <<LookupCall, EtaCall>>,
      <<CancelAllowedCall>>, <<CancelBlockedCall>>, <<CancelBadIdCall>>,
      <<CancelNaiveCall>>, <<LookupCall, CancelBlockedCall>>,
      <<CancelBlockedCall, CancelAllowedCall>>, <<LookupCall, EtaCall, CancelAllowedCall>> }

\* what the tool function returns (or raises) for one request
RunTool(file, catalog, now_utc, call) ==
    CASE call.name = "order_lookup" -> order_lookup(file, call.args.order_id, call.args.email)
      [] call.name = "order_cancel" -> order_cancel(file, call.args.order_id, call.args.simulated_now, now_utc)
      [] call.name = "eta"          -> eta(call.args.zip_code)
      [] call.name = "product_search" ->
            product_search(catalog, call.args.query, call.args.price_max, call.args.tags)
      [] call.name = "size_recommender" -> size_recommender(call.args.user_input)

\* ToolNode's message content for one request: a str result as it is, any
\* other result through json.dumps; an error text for a name outside the
\* registry and for a tool exception that ToolNode handles
ToolContent(file, catalog, now_utc, call) ==
    IF call.name \notin ToolRegistry
    THEN [fmt |-> "text", data |-> [text |-> "Error: not a valid tool", name |-> call.name]]
    ELSE LET result == RunTool(file, catalog, now_utc, call) IN
         IF "raised" \in DOMAIN result
         THEN [fmt |-> "text", data |-> [text |-> "Error: please fix your mistakes", exc |-> result.raised]]
         ELSE IF "text" \in DOMAIN result
         THEN [fmt |-> "text", data |-> result]
         ELSE [fmt |-> "json", data |-> result]

ToolRaises(file, catalog, now_utc, call) ==
    /\ call.name \in ToolRegistry
    /\ "raised" \in DOMAIN RunTool(file, catalog, now_utc, call)

-----------------------------------------------------------------------------
(* Sequences of direct tool calls, the clock moving between them *)

\* direct calls a behaviour may make
MaxCalls == 3

\* seconds the clock may advance during a behaviour
MaxTicks == 2

\* A1003 was created at 2025-09-07T11:55:00Z: the instant 60 minutes later
A1003Deadline == 1 * 86400 + 12 * 3600 + 55 * 60

Call(name, args) == [name |-> name, args |-> args]

CancelCalls ==
    { Call("order_cancel", [order_id |-> A1003, simulated_now |-> ts]) :
        ts \in {NoneArg, Iso(1, 12, 55, 0, "Z"), Iso(1, 12, 30, 0, "+00:00"),
                Iso(1, 12, 30, 0, ""), GarbageTs} }
    \cup { Call("order_cancel", [order_id |-> <<"A", "1", "0", "0">>,
                                  simulated_now |-> Iso(1, 12, 55, 0, "Z")]) }

LookupCalls ==
    { Call("order_lookup", [order_id |-> A1003, email |-> e]) :
        e \in {MiraEmail, <<"m", "i", "r", "a">>} }

EtaCalls ==
    { Call("eta", [zip_code |-> z]) : z \in {Zip560001, <<"5", "6", "0">>} }

SearchCalls ==
    { Call("product_search", [query |-> MidiDress, price_max |-> PriceMax(120), tags |-> <<>>]),
      Call("product_search", [query |-> <<>>, price_max |-> NoPrice,
                              tags |-> <<"w", "e", "d", "d", "i", "n", "g", ",", " ", "m", "i", "d", "i">>]) }

SizeCalls ==
    { Call("size_recommender", [user_input |-> <<"b", "e", "t", "w", "e", "e", "n", " ", "M", "/", "L">>]) }

InitCalls ==
    /\ IdleRun
    /\ clock = A1003Deadline
    /\ \E stores \in { <<OrdersFileOk, ProductsFileOk>>,
                        <<OrdersFileMissing, ProductsFileCorrupt>>,
                        <<OrdersFileCorrupt, ProductsFileMissing>> } :
          /\ orders_file = stores[1]
          /\ products_file = stores[2]
    /\ tool_in = NoCall
    /\ tool_out = NoResult
    /\ seen = {}
    /\ ncalls = 0
    /\ history = <<>>
    /\ turns = 0
    /\ first_run = NoRun

\* one call of a tool function: its outcome, and the stores as it leaves them
Invoke(call) ==
    /\ ncalls < MaxCalls
    /\ LET result == RunTool(orders_file, products_file, clock, call) IN
       /\ seen' = seen \cup {[call |-> call, result |-> result, at |-> clock]}
       /\ orders_file' = orders_written(orders_file, call, result)
       /\ products_file' = products_written(products_file, call, result)
    /\ ncalls' = ncalls + 1
    /\ UNCHANGED <<runVars, clock, tool_in, tool_out, history, turns, first_run>>

CallProductSearch   == \E call \in SearchCalls : Invoke(call)
CallSizeRecommender == \E call \in SizeCalls : Invoke(call)
CallEta             == \E call \in EtaCalls : Invoke(call)
CallOrderLookup     == \E call \in LookupCalls : Invoke(call)
CallOrderCancelAny  == \E call \in CancelCalls : Invoke(call)

\* time passes between two calls
Tick ==
    /\ clock < A1003Deadline + MaxTicks
    /\ clock' = clock + 1
    /\ UNCHANGED <<runVars, orders_file, products_file, tool_in, tool_out, seen, ncalls, first_run,
                   history, turns>>

NextCalls ==
    \/ CallProductSearch
    \/ CallSizeRecommender
    \/ CallEta
    \/ CallOrderLookup
    \/ CallOrderCancelAny
    \/ Tick

SpecCalls == InitCalls /\ [][NextCalls]_vars

-----------------------------------------------------------------------------
(* AgentState reducers *)

\* a field without a reducer: the update replaces the value
ReduceOverwrite(old, update) == update

\* Annotated[..., operator.add]: the update is concatenated to the value
ReduceAdd(old, update) == old \o update

-----------------------------------------------------------------------------
(* PolicyGuard *)

\* json.loads(item) succeeds and the object has both keys
VerdictShaped(item) ==
    /\ item.fmt = "json"
    /\ "success" \in DOMAIN item.data
    /\ "reason" \in DOMAIN item.data

Blocked(reason) == [cancel_allowed |-> FALSE, reason |-> reason]
Allowed         == [cancel_allowed |-> TRUE]

\* a guard that skips the intent test
policy_guard_any_intent(intent_, evidence_) ==
    IF evidence_ = <<>> THEN NoDecision
    ELSE IF ~\E i \in 1..Len(evidence_) : VerdictShaped(evidence_[i]) THEN NoDecision
    ELSE LET first == CHOOSE i \in 1..Len(evidence_) :
                         /\ VerdictShaped(evidence_[i])
                         /\ \A j \in 1..(i - 1) : ~VerdictShaped(evidence_[j])
             out   == evidence_[first].data
         IN  IF out.success = FALSE THEN Blocked(out.reason) ELSE Allowed

\* a guard that formalizes every verdict as allowed
policy_guard_always_allows(intent_, evidence_) ==
    IF intent_ # "order_help" THEN NoDecision
    ELSE IF evidence_ = <<>> THEN NoDecision
    ELSE IF ~\E i \in 1..Len(evidence_) : VerdictShaped(evidence_[i]) THEN NoDecision
    ELSE Allowed

\* a guard that lets the last entry of the verdict shape decide
policy_guard_last_verdict(intent_, evidence_) ==
    IF intent_ # "order_help" THEN NoDecision
    ELSE IF evidence_ = <<>> THEN NoDecision
    ELSE IF ~\E i \in 1..Len(evidence_) : VerdictShaped(evidence_[i]) THEN NoDecision
    ELSE LET last == CHOOSE i \in 1..Len(evidence_) :
                        /\ VerdictShaped(evidence_[i])
                        /\ \A j \in (i + 1)..Len(evidence_) : ~VerdictShaped(evidence_[j])
             out  == evidence_[last].data
         IN  IF out.success = FALSE THEN Blocked(out.reason) ELSE Allowed

\* the value policy_guard_node returns for policy_decision
policy_guard(intent_, evidence_) ==
    IF intent_ # "order_help" THEN NoDecision
    ELSE IF evidence_ = <<>> THEN NoDecision
    ELSE IF ~\E i \in 1..Len(evidence_) : VerdictShaped(evidence_[i]) THEN NoDecision
    ELSE LET first == CHOOSE i \in 1..Len(evidence_) :
                         /\ VerdictShaped(evidence_[i])
                         /\ \A j \in 1..(i - 1) : ~VerdictShaped(evidence_[j])
             out   == evidence_[first].data
         IN  IF out.success = FALSE THEN Blocked(out.reason) ELSE Allowed

-----------------------------------------------------------------------------
(* Orchestrator: conditional edges *)

\* a router edge that sends every intent to the agent
RouterEdgeAlwaysAgent(intent_) == "agent"

\* router's edge: lambda state: state["intent"] through the mapping
RouterEdge(intent_) == IF intent_ = "other" THEN "responder" ELSE "agent"

\* a decision that also reads the text of the reply for a fenced block
should_continue_on_text(messages_) ==
    IF \/ Last(messages_).tool_calls # <<>>
       \/ Last(messages_).content.llm \in UnparsedTexts
    THEN "execute_tools" ELSE "END"

should_continue(messages_) ==
    IF Last(messages_).tool_calls # <<>> THEN "execute_tools" ELSE "END"

\* an agent edge whose END branch leaves the graph at once
AgentEdgeEndsRun(messages_) ==
    IF should_continue(messages_) = "execute_tools" THEN "tool_executor" ELSE "END"

\* an edge that follows the requests of a reply only when its text
\* announces them in the expected words
AgentEdgeReadsText(messages_) ==
    IF /\ should_continue(messages_) = "execute_tools"
       /\ Last(messages_).content.llm = "reasoning"
    THEN "tool_executor" ELSE "responder"

\* agent's edge: {"execute_tools": "tool_executor", END: "responder"}
AgentEdge(messages_) ==
    IF should_continue(messages_) = "execute_tools" THEN "tool_executor" ELSE "responder"

\* routing on the intent instead of on the tools that ran
route_after_tools_by_intent(intent_, tools_called_) ==
    IF intent_ = "order_help" THEN "policy_guard" ELSE "agent"

\* "order_cancel" in state.get("tools_called", [])
route_after_tools(intent_, tools_called_) ==
    IF \E i \in 1..Len(tools_called_) : tools_called_[i] = "order_cancel"
    THEN "policy_guard" ELSE "agent"

\* supersteps a run may take before the runtime raises GraphRecursionError:
\* app.invoke(inputs) is called without a config, so the default applies
RecursionLimit == 25

Nodes == {"router", "agent", "tool_executor", "policy_guard", "responder"}

-----------------------------------------------------------------------------
(* Orchestrator: one action per node *)

Utterances ==
    { <<"C", "a", "n", "c", "e", "l", " ", "o", "r", "d", "e", "r", " ", "A", "1", "0", "0", "3">>,
      <<"m", "i", "d", "i", " ", "d", "r", "e", "s", "s">>,
      <<"d", "i", "s", "c", "o", "u", "n", "t", " ", "c", "o", "d", "e">>,
      <<"D", "i", "s", "c", "o", "u", "n", "t", " ", "C", "o", "d", "e">>,
      <<"r", "e", "f", "u", "n", "d", " ", "d", "i", "s", "c", "o", "u", "n", "t", " ", "c", "o", "d", "e">>,
      <<"H", "i">> }

\* the instant the real clock shows during the run
RunClock == 1 * 86400 + 12 * 3600 + 30 * 60

Init ==
    /\ pc = "router"
    /\ messages \in { <<HumanMessage(u)>> : u \in Utterances }
    /\ intent = "unset"
    /\ tools_called = <<>>
    /\ evidence = <<>>
    /\ policy_decision = NoDecision
    /\ final_message = "unset"
    /\ respond_in = NoGeneration
    /\ path = <<>>
    /\ last_batch = <<>>
    /\ finished = <<>>
    /\ invocations = 0
    /\ rounds = 0
    /\ error = "none"
    /\ clock = RunClock
    /\ orders_file \in {OrdersFileOk, OrdersFileMissing}
    /\ tool_in = NoCall
    /\ tool_out = NoResult
    /\ products_file = ProductsFileOk
    /\ seen = {}
    /\ ncalls = 0
    /\ history = <<>>
    /\ turns = 0
    /\ first_run = NoRun

\* the node raised: app.invoke raises and returns no state
Fail(exc) ==
    /\ pc' = "failed"
    /\ error' = exc
    /\ UNCHANGED <<messages, intent, tools_called, evidence, policy_decision,
                   final_message, respond_in, path, last_batch, finished, invocations, rounds>>

CanStep(node) == pc = node /\ Len(path) < RecursionLimit

RouterKeyword ==
    /\ CanStep("router")
    /\ LET route == deterministic_keyword_routing(Last(messages).content.chars) IN
       /\ route # "none"
       /\ intent' = route
       /\ pc' = RouterEdge(route)
    /\ path' = Append(path, "router")
    /\ UNCHANGED <<messages, tools_called, evidence, policy_decision, final_message, respond_in,
                   last_batch, finished, invocations, rounds, error>>

RouterFallback ==
    /\ CanStep("router")
    /\ deterministic_keyword_routing(Last(messages).content.chars) = "none"
    /\ \E reply \in RouterReplies :
          /\ reply.raises = "none"
          /\ intent' = destination_of(reply)
          /\ pc' = RouterEdge(destination_of(reply))
    /\ path' = Append(path, "router")
    /\ UNCHANGED <<messages, tools_called, evidence, policy_decision, final_message, respond_in,
                   last_batch, finished, invocations, rounds, error>>

RouterRaises ==
    /\ CanStep("router")
    /\ deterministic_keyword_routing(Last(messages).content.chars) = "none"
    /\ \E reply \in RouterReplies :
          /\ reply.raises # "none"
          /\ Fail(reply.raises)

Router ==
    /\ \/ RouterKeyword
       \/ RouterFallback
       \/ RouterRaises
    /\ UNCHANGED envVars

\* the requests a reply may carry: any batch of the menu while the run has
\* made fewer than MaxRounds tool rounds, afterwards only one fixed request
AgentBatches ==
    IF rounds < MaxRounds THEN BatchMenu \cup {<<>>} ELSE {<<EtaCall>>, <<>>}

WithIds(batch) ==
    [i \in 1..Len(batch) |->
        [name |-> batch[i].name, args |-> batch[i].args, id |-> [r |-> rounds + 1, i |-> i]]]

\* response.content: the free text of a reply. A run that repeats a
\* completed one is worded differently throughout
ReplyTexts(batch) ==
    IF first_run # NoRun THEN {"rephrased"}
    ELSE IF batch = <<>> THEN {"reasoning"} \cup UnparsedTexts
    ELSE {"reasoning"}

\* a reasoning node that also returns an intent of its own
AgentRepliesReclassifies ==
    /\ CanStep("agent")
    /\ \E batch \in AgentBatches : \E text \in ReplyTexts(batch) :
          /\ messages' = ReduceAdd(messages, <<AIMessage(text, WithIds(batch))>>)
          /\ pc' = AgentEdge(messages')
    /\ intent' = "product_assist"
    /\ path' = Append(path, "agent")
    /\ UNCHANGED <<tools_called, evidence, policy_decision, final_message, respond_in,
                   last_batch, finished, invocations, rounds, error>>

\* chain.invoke: the provider's reply, text and tool calls, is returned as it is
AgentReplies ==
    /\ CanStep("agent")
    /\ \E batch \in AgentBatches : \E text \in ReplyTexts(batch) :
          /\ messages' = ReduceAdd(messages, <<AIMessage(text, WithIds(batch))>>)
          /\ pc' = AgentEdge(messages')
    /\ path' = Append(path, "agent")
    /\ UNCHANGED <<intent, tools_called, evidence, policy_decision, final_message, respond_in,
                   last_batch, finished, invocations, rounds, error>>

AgentRaises ==
    /\ CanStep("agent")
    /\ \E exc \in {"ValueError", "GenerationError"} : Fail(exc)

Agent ==
    /\ \/ AgentReplies
       \/ AgentRaises
    /\ UNCHANGED envVars

\* the orders in which n invocations running side by side may finish
FinishOrders(n) == {f \in [1..n -> 1..n] : \A i, j \in 1..n : f[i] = f[j] => i = j}

\* a pool that hands back each output as soon as its invocation is done
collect_as_completed(outputs, done) == [k \in 1..Len(outputs) |-> outputs[done[k]]]

\* tool_node.invoke: the pool maps the requests to their outputs and yields
\* them in the order of the requests, whichever invocation is done first
collect(outputs, done) == outputs

ToolExecutorReturns ==
    /\ CanStep("tool_executor")
    /\ \E done \in FinishOrders(Len(Last(messages).tool_calls)) :
       LET tool_calls    == Last(messages).tool_calls
           outputs       == [i \in 1..Len(tool_calls) |->
                                ToolMessage(ToolContent(orders_file, products_file, clock, tool_calls[i]),
                                            tool_calls[i].id)]
           tool_messages == collect(outputs, done)
           evidence_     == [i \in 1..Len(tool_messages) |-> tool_messages[i].content]
           names         == [i \in 1..Len(tool_calls) |-> tool_calls[i].name]
       IN  /\ finished' = done
           /\ messages' = ReduceAdd(messages, tool_messages)
           /\ evidence' = ReduceAdd(evidence, evidence_)
           /\ tools_called' = ReduceAdd(tools_called, names)
           /\ last_batch' = names
           /\ invocations' = invocations + Len(tool_calls)
           /\ pc' = route_after_tools(intent, tools_called')
    /\ rounds' = rounds + 1
    /\ path' = Append(path, "tool_executor")
    /\ UNCHANGED <<intent, policy_decision, final_message, respond_in, error>>

\* a tool exception that ToolNode is not set to handle leaves the node
ToolExecutorRaises ==
    /\ CanStep("tool_executor")
    /\ \E i \in 1..Len(Last(messages).tool_calls) :
          ToolRaises(orders_file, products_file, clock, Last(messages).tool_calls[i])
    /\ Fail("ToolError")

ToolExecutor ==
    /\ \/ ToolExecutorReturns
       \/ ToolExecutorRaises
    /\ UNCHANGED envVars

\* a graph whose policy_guard node hands control back to the agent
PolicyGuardReturnsToAgent ==
    /\ CanStep("policy_guard")
    /\ policy_decision' = policy_guard(intent, evidence)
    /\ pc' = "agent"
    /\ path' = Append(path, "policy_guard")
    /\ UNCHANGED <<messages, intent, tools_called, evidence, final_message, respond_in,
                   last_batch, finished, invocations, rounds, error>>
    /\ UNCHANGED envVars

PolicyGuard ==
    /\ CanStep("policy_guard")
    /\ policy_decision' = policy_guard(intent, evidence)
    /\ pc' = "responder"
    /\ path' = Append(path, "policy_guard")
    /\ UNCHANGED <<messages, intent, tools_called, evidence, final_message, respond_in,
                   last_batch, finished, invocations, rounds, error>>
    /\ UNCHANGED envVars

\* the values responder_node fills its prompt with
responder_inputs(messages_, evidence_, policy_decision_) ==
    [question        |-> Last(messages_).content,      \* state["messages"][-1].content
     evidence        |-> evidence_,
     policy_decision |-> policy_decision_]

\* a responder that also returns its reply as a message of the conversation
ResponderRepliesIntoMessages ==
    /\ CanStep("responder")
    /\ respond_in' = responder_inputs(messages, evidence, policy_decision)
    /\ final_message' = "reply"
    /\ messages' = ReduceAdd(messages, <<AIMessage("reply", <<>>)>>)
    /\ pc' = "END"
    /\ path' = Append(path, "responder")
    /\ UNCHANGED <<intent, tools_called, evidence, policy_decision,
                   last_batch, finished, invocations, rounds, error>>

ResponderReplies ==
    /\ CanStep("responder")
    /\ respond_in' = responder_inputs(messages, evidence, policy_decision)
    /\ final_message' = "reply"
    /\ pc' = "END"
    /\ path' = Append(path, "responder")
    /\ UNCHANGED <<messages, intent, tools_called, evidence, policy_decision,
                   last_batch, finished, invocations, rounds, error>>

ResponderRaises ==
    /\ CanStep("responder")
    /\ \E exc \in {"ValueError", "GenerationError"} : Fail(exc)

Responder ==
    /\ \/ ResponderReplies
       \/ ResponderRaises
    /\ UNCHANGED envVars

\* a limit that ends the run quietly, handing back the state reached so far
RecursionLimitReturnsState ==
    /\ pc \in Nodes
    /\ Len(path) >= RecursionLimit
    /\ pc' = "END"
    /\ UNCHANGED <<messages, intent, tools_called, evidence, policy_decision,
                   final_message, respond_in, path, last_batch, finished, invocations, rounds, error>>
    /\ UNCHANGED envVars

\* the run has taken RecursionLimit supersteps and has not reached END
RecursionLimitHit ==
    /\ pc \in Nodes
    /\ Len(path) >= RecursionLimit
    /\ Fail("GraphRecursionError")
    /\ UNCHANGED envVars

Next ==
    \/ Router
    \/ Agent
    \/ ToolExecutor
    \/ PolicyGuard
    \/ Responder
    \/ RecursionLimitHit

Spec == Init /\ [][Next]_vars

\* every node that is due is eventually run: invoke() drives the graph on
FairSpec == Spec /\ WF_vars(Next)

-----------------------------------------------------------------------------
(* A run and its repetition: the same utterance put to the graph twice,    *)
(* the generation step answering with the same structured content          *)

\* the tool requests of the replies of a message list, their wording left out
Requests(messages_) ==
    LET replies == SelectSeq(messages_, LAMBDA msg : msg.role = "assistant")
    IN  [k \in 1..Len(replies) |-> replies[k].tool_calls]

IsPrefix(s, t) == Len(s) <= Len(t) /\ \A i \in 1..Len(s) : s[i] = t[i]

\* the classifier's fallback names the destination it named in the first run
DestinationAgrees == first_run # NoRun => intent = first_run.intent

\* reply by reply the reasoning step asks for what it asked in the first run
RequestsAgree == first_run # NoRun => IsPrefix(Requests(messages), Requests(first_run.messages))

PairUtterances ==
    { <<"C", "a", "n", "c", "e", "l", " ", "o", "r", "d", "e", "r", " ", "A", "1", "0", "0", "3">>,
      <<"H", "i">> }

InitPair ==
    /\ Init
    /\ messages[1].content.chars \in PairUtterances
    /\ orders_file = OrdersFileOk

\* app.invoke(inputs) once more, with the inputs of the completed run
Rerun ==
    /\ pc = "END"
    /\ first_run = NoRun
    /\ first_run' = [path |-> path, messages |-> messages, intent |-> intent,
                     tools_called |-> tools_called, evidence |-> evidence,
                     policy_decision |-> policy_decision]
    /\ pc' = "router"
    /\ messages' = <<messages[1]>>
    /\ intent' = "unset"
    /\ tools_called' = <<>>
    /\ evidence' = <<>>
    /\ policy_decision' = NoDecision
    /\ final_message' = "unset"
    /\ respond_in' = NoGeneration
    /\ path' = <<>>
    /\ last_batch' = <<>>
    /\ finished' = <<>>
    /\ invocations' = 0
    /\ rounds' = 0
    /\ error' = "none"
    /\ UNCHANGED <<clock, orders_file, tool_in, tool_out, products_file, seen, ncalls,
                   history, turns>>

NextPair ==
    \/ Router /\ DestinationAgrees'
    \/ Agent /\ RequestsAgree'
    \/ ToolExecutor
    \/ PolicyGuard
    \/ Responder
    \/ RecursionLimitHit
    \/ Rerun

SpecPair == InitPair /\ [][NextPair]_vars

-----------------------------------------------------------------------------
(* order_lookup called directly *)

EmailInputs ==
    { AlexEmail, MiraEmail,
      <<"n", "o", "b", "o", "d", "y", "@", "e", "x", "a", "m", "p", "l", "e", ".", "c", "o", "m">>,   \* well-formed, no order
      <<"m", "i", "r", "a", "@", "e", "x", "a", "m", "p", "l", "e">>,                                  \* no last label
      <<"m", "i", "r", "a">>,                                                                          \* no @
      <<>>,
      MiraEmail \o <<"\n">>,                                                                           \* trailing newline
      <<"M", "i", "r", "a", "@", "e", "x", "a", "m", "p", "l", "e", ".", "c", "o", "m">> }             \* other case

InitLookup ==
    /\ IdleRun
    /\ clock = RunClock
    /\ orders_file \in {OrdersFileOk, OrdersFileMissing, OrdersFileCorrupt}
    /\ tool_in \in { [tool |-> "order_lookup", order_id |-> id, email |-> email] :
                        id \in OrderIdInputs, email \in EmailInputs }
    /\ tool_out = NoResult
    /\ products_file = ProductsFileOk
    /\ seen = {}
    /\ ncalls = 0
    /\ history = <<>>
    /\ turns = 0
    /\ first_run = NoRun

LookupOrder ==
    /\ tool_in.tool = "order_lookup"
    /\ tool_out = NoResult
    /\ tool_out' = order_lookup(orders_file, tool_in.order_id, tool_in.email)
    /\ UNCHANGED <<runVars, clock, orders_file, tool_in, products_file, seen, ncalls, first_run,
                   history, turns>>

NextLookup == LookupOrder

SpecLookup == InitLookup /\ [][NextLookup]_vars

-----------------------------------------------------------------------------
(* The validators called directly, as the unit tests do *)

\* longest run of characters between the prefix and the tail of an order id
MaxDigits == 5

\* order ids: a prefix, up to MaxDigits characters, a tail
OrderIdTexts ==
    { pre \o mid \o tail :
        pre  \in { <<>>, <<"A">>, <<"a">>, <<"B">>, <<"A", "A">> },
        mid  \in UNION { [1..n -> {"0", "1", "x"}] : n \in 0..MaxDigits },
        tail \in { <<>>, <<"\n">>, <<" ">>, <<"\n", "\n">>, <<"1", "\n">> } }

\* addresses: local part, separator, domain, dot, last label, tail
EmailTexts ==
    { loc \o at \o dom \o dot \o tld \o tail :
        loc  \in { <<>>, <<"u", "s", "e", "r">>, <<"t", "e", "s", "t", ".", "e", "m", "a", "i", "l", "+", "t", "a", "g">>, <<"u", "s", "e", "r", " ", "s", "p", "a", "c", "e">>, <<"u", "!">> },
        at   \in { <<"@">>, <<>>, <<"@", "@">> },
        dom  \in { <<>>, <<"e", "x", "a", "m", "p", "l", "e">>, <<"d", "o", "m", "a", "i", "n", ".", "c", "o">>, <<".">>, <<"e", "x", "a", " ", "m", "p", "l", "e">>, <<"e", "x", "_", "a", "m", "p", "l", "e">> },
        dot  \in { <<".">>, <<>> },
        tld  \in { <<"c", "o", "m">>, <<"u", "k">>, <<"c">>, <<"c", "0", "m">>, <<>> },
        tail \in { <<>>, <<"\n">>, <<" ">>, <<"\n", "\n">>, <<"x">> } }

InitValidate ==
    /\ IdleRun
    /\ clock = RunClock
    /\ orders_file = OrdersFileOk
    /\ products_file = ProductsFileOk
    /\ tool_in \in { [tool |-> "validate_order_id", text |-> t] : t \in OrderIdTexts }
                  \cup { [tool |-> "validate_email", text |-> t] : t \in EmailTexts }
    /\ tool_out = NoResult
    /\ seen = {}
    /\ ncalls = 0
    /\ history = <<>>
    /\ turns = 0
    /\ first_run = NoRun

CallValidateOrderId ==
    /\ tool_in.tool = "validate_order_id"
    /\ tool_out = NoResult
    /\ tool_out' = [valid |-> validate_order_id(tool_in.text)]
    /\ UNCHANGED <<runVars, clock, orders_file, tool_in, products_file, seen, ncalls, first_run,
                   history, turns>>

CallValidateEmail ==
    /\ tool_in.tool = "validate_email"
    /\ tool_out = NoResult
    /\ tool_out' = [valid |-> validate_email(tool_in.text)]
    /\ UNCHANGED <<runVars, clock, orders_file, tool_in, products_file, seen, ncalls, first_run,
                   history, turns>>

NextValidate ==
    \/ CallValidateOrderId
    \/ CallValidateEmail

SpecValidate == InitValidate /\ [][NextValidate]_vars

-----------------------------------------------------------------------------
(* product_search called directly over catalogs of several shapes *)

\* the products a catalog may hold, in file order
ProductPool == Products \o << Product("P5", MidiDress, 60, <<TagMidi>>) >>

\* the catalog of the scenario: the $95 and the $150 midi dress
TwoDresses == <<Products[1], Products[2]>>

Catalogs == { Filter(ProductPool, keep) : keep \in [1..Len(ProductPool) -> BOOLEAN] }

SearchInputs ==
    { [tool |-> "product_search", query |-> q, price_max |-> pm, tags |-> tg] :
        q  \in { MidiDress, <<"D", "r", "e", "s", "s">>, <<"s", "c", "a", "r", "f">>, <<>> },
        pm \in { NoPrice, PriceMax(120), PriceMax(100), PriceMax(40) },
        tg \in { <<>>, <<"w", "e", "d", "d", "i", "n", "g", ",", " ", "m", "i", "d", "i">>, <<"p", "a", "r", "t", "y">>, <<"w", "e", "d", "d", "i", "n", "g", ",", "p", "a", "r", "t", "y">> } }

InitSearch ==
    /\ IdleRun
    /\ clock = RunClock
    /\ orders_file = OrdersFileOk
    /\ products_file \in { [status |-> "ok", products |-> c] : c \in Catalogs }
    /\ tool_in \in SearchInputs
    /\ tool_out = NoResult
    /\ seen = {}
    /\ ncalls = 0
    /\ history = <<>>
    /\ turns = 0
    /\ first_run = NoRun

CallSearch ==
    /\ tool_in.tool = "product_search"
    /\ tool_out = NoResult
    /\ tool_out' = product_search(products_file, tool_in.query, tool_in.price_max, tool_in.tags)
    /\ UNCHANGED <<runVars, clock, orders_file, tool_in, products_file, seen, ncalls, first_run,
                   history, turns>>

NextSearch == CallSearch

SpecSearch == InitSearch /\ [][NextSearch]_vars

-----------------------------------------------------------------------------
(* policy_guard on its own, over evidence of every shape it tells apart *)

\* evidence entries a state handed to the guard may hold
MaxEvidence == 3

OtherReason == <<"Order", "already", "shipped.">>

\* one entry per case of the guard's scan: text that is no JSON, objects
\* with neither key, with one of the two, and with both
EvidenceItems ==
    { [fmt |-> "text", data |-> eta(Zip560001)],
      [fmt |-> "json", data |-> Orders[2]],
      [fmt |-> "json", data |-> CancelError("Order not found in the system")],
      [fmt |-> "json", data |-> [reason |-> OtherReason]],
      [fmt |-> "json", data |-> [success |-> FALSE, reason |-> PolicyReason,
                                 minutes_since_order |-> [whole |-> 1555],
                                 policy |-> PolicyStatement]],
      [fmt |-> "json", data |-> [success |-> FALSE, reason |-> OtherReason]],
      [fmt |-> "json", data |-> [success |-> TRUE, reason |-> OtherReason]] }

InitGuard ==
    /\ pc = "policy_guard"
    /\ messages = <<HumanMessage(<<"H", "i">>)>>
    /\ intent \in {"order_help", "product_assist"}     \* the fallback may give either
    /\ evidence \in UNION { [1..n -> EvidenceItems] : n \in 0..MaxEvidence }
    /\ tools_called = [i \in 1..Len(evidence) |->
                          IF evidence[i].fmt = "text" THEN "eta" ELSE "order_cancel"]
    /\ policy_decision = NoDecision
    /\ final_message = "unset"
    /\ respond_in = NoGeneration
    /\ path = <<"router", "agent", "tool_executor">>
    /\ last_batch = tools_called
    /\ finished = <<>>
    /\ invocations = Len(evidence)
    /\ rounds = 1
    /\ error = "none"
    /\ clock = RunClock
    /\ orders_file = OrdersFileOk
    /\ tool_in = NoCall
    /\ tool_out = NoResult
    /\ products_file = ProductsFileOk
    /\ seen = {}
    /\ ncalls = 0
    /\ history = <<>>
    /\ turns = 0
    /\ first_run = NoRun

NextGuard == PolicyGuard

SpecGuard == InitGuard /\ [][NextGuard]_vars

-----------------------------------------------------------------------------
(* The router on its own, over questions that mix the keywords of its rules *)

OrderWords ==
    { <<>>, <<"o", "r", "d", "e", "r">>, <<"C", "a", "n", "c", "e", "l">>, <<"R", "E", "F", "U", "N", "D">>, <<"a", "1", "0", "0", "3">> }

ProductWords ==
    { <<>>, <<"d", "r", "e", "s", "s">>, <<"S", "i", "z", "e">>, <<"Z", "I", "P">>, <<"s", "h", "i", "p", "p", "i", "n", "g">> }

GuardrailWords ==
    { <<>>, <<"d", "i", "s", "c", "o", "u", "n", "t">>, <<"C", "O", "D", "E">>, <<"S", "a", "l", "e">>, <<"p", "r", "o", "m", "o">> }

\* three words in a row, blanks between them
Phrase(a, b, c) == strip(a \o <<" ">> \o b \o <<" ">> \o c)

\* questions with the words of the rules in either order, and some whose
\* keyword sits inside a longer word or is absent
RouterQuestions ==
    ( { Phrase(o, p, g) : o \in OrderWords, p \in ProductWords, g \in GuardrailWords }
      \cup { Phrase(g, p, o) : o \in OrderWords, p \in ProductWords, g \in GuardrailWords }
      \cup { <<"H", "i">>, <<"b", "o", "r", "d", "e", "r">>, <<"r", "e", "t", "a", "i", "l">>, <<"w", "h", "o", "l", "e", "s", "a", "l", "e">>, <<"d", "e", "c", "o", "d", "e", "r">>, <<"h", "e", "l", "l", "o", " ", "t", "h", "e", "r", "e">> } )
    \ {<<>>}

InitRouter ==
    /\ pc = "router"
    /\ messages \in { <<HumanMessage(u)>> : u \in RouterQuestions }
    /\ intent = "unset"
    /\ tools_called = <<>>
    /\ evidence = <<>>
    /\ policy_decision = NoDecision
    /\ final_message = "unset"
    /\ respond_in = NoGeneration
    /\ path = <<>>
    /\ last_batch = <<>>
    /\ finished = <<>>
    /\ invocations = 0
    /\ rounds = 0
    /\ error = "none"
    /\ clock = RunClock
    /\ orders_file = OrdersFileOk
    /\ tool_in = NoCall
    /\ tool_out = NoResult
    /\ products_file = ProductsFileOk
    /\ seen = {}
    /\ ncalls = 0
    /\ history = <<>>
    /\ turns = 0
    /\ first_run = NoRun

NextRouter == Router

SpecRouter == InitRouter /\ [][NextRouter]_vars

-----------------------------------------------------------------------------
(* The command-line session: main()'s loop around the graph *)

\* turns a conversation may take before it is cleared or the session ends
MaxTurns == 2

\* what the user types at the prompt, apart from the commands
SessionUtterances ==
    { <<"d", "i", "s", "c", "o", "u", "n", "t", " ", "c", "o", "d", "e">>,   \* a keyword rule decides
      <<"H", "i">> }                                                         \* the fallback decides

\* HumanMessage(content=response): the reply as main() stores it
ReplyMessage(response) ==
    [role |-> "user", content |-> [llm |-> response], tool_calls |-> <<>>, tool_call_id |-> NoId]

\* inputs that hand the state of the previous run back to the graph
RunInputsKeepLastState(messages_) ==
    [messages        |-> ReduceAdd(<<>>, messages_),
     intent          |-> intent,
     tools_called    |-> tools_called,
     evidence        |-> evidence,
     policy_decision |-> policy_decision,
     final_message   |-> final_message]

\* the state app.invoke starts from for inputs = {"messages": messages}:
\* the given list in the messages channel, every other key absent
RunInputs(messages_) ==
    [messages        |-> ReduceAdd(<<>>, messages_),
     intent          |-> "unset",
     tools_called    |-> <<>>,
     evidence        |-> <<>>,
     policy_decision |-> NoDecision,
     final_message   |-> "unset"]

InitSession ==
    /\ pc = "prompt"
    /\ messages = <<>>
    /\ intent = "unset"
    /\ tools_called = <<>>
    /\ evidence = <<>>
    /\ policy_decision = NoDecision
    /\ final_message = "unset"
    /\ respond_in = NoGeneration
    /\ path = <<>>
    /\ last_batch = <<>>
    /\ finished = <<>>
    /\ invocations = 0
    /\ rounds = 0
    /\ error = "none"
    /\ clock = RunClock
    /\ orders_file = OrdersFileOk
    /\ products_file = ProductsFileOk
    /\ tool_in = NoCall
    /\ tool_out = NoResult
    /\ seen = {}
    /\ ncalls = 0
    /\ history = <<>>
    /\ turns = 0
    /\ first_run = NoRun

\* the user typed an utterance: it joins the list and the graph is invoked
TurnStarts ==
    /\ pc = "prompt"
    /\ turns < MaxTurns
    /\ \E user_input \in SessionUtterances :
          /\ history' = Append(history, HumanMessage(user_input))
          /\ LET inputs == RunInputs(history') IN
             /\ messages' = inputs.messages
             /\ intent' = inputs.intent
             /\ tools_called' = inputs.tools_called
             /\ evidence' = inputs.evidence
             /\ policy_decision' = inputs.policy_decision
             /\ final_message' = inputs.final_message
    /\ respond_in' = NoGeneration
    /\ turns' = turns + 1
    /\ pc' = "router"
    /\ path' = <<>>
    /\ last_batch' = <<>>
    /\ finished' = <<>>
    /\ invocations' = 0
    /\ rounds' = 0
    /\ error' = "none"
    /\ UNCHANGED <<clock, orders_file, products_file, tool_in, tool_out, seen, ncalls, first_run>>

\* invoke returned: the reply joins the list and is shown
TurnCompletes ==
    /\ pc = "END"
    /\ history' = Append(history, ReplyMessage(final_message))
    /\ pc' = "prompt"
    /\ UNCHANGED <<messages, intent, tools_called, evidence, policy_decision,
                   final_message, respond_in, path, last_batch, finished, invocations, rounds, error>>
    /\ UNCHANGED <<clock, orders_file, products_file, tool_in, tool_out, seen, ncalls, first_run, turns>>

\* a loop without the handler: the exception ends the process
TurnFailsEndsSession ==
    /\ pc = "failed"
    /\ pc' = "exited"
    /\ UNCHANGED <<messages, intent, tools_called, evidence, policy_decision,
                   final_message, respond_in, path, last_batch, finished, invocations, rounds, error>>
    /\ UNCHANGED envVars

\* a handler that records the default apology as the reply of the failed turn
TurnFailsStoresApology ==
    /\ pc = "failed"
    /\ pc' = "prompt"
    /\ history' = Append(history, ReplyMessage("apology"))
    /\ UNCHANGED <<messages, intent, tools_called, evidence, policy_decision,
                   final_message, respond_in, path, last_batch, finished, invocations, rounds, error>>
    /\ UNCHANGED <<clock, orders_file, products_file, tool_in, tool_out, seen, ncalls, first_run, turns>>

\* except Exception: the error is shown and the loop goes on
TurnFails ==
    /\ pc = "failed"
    /\ pc' = "prompt"
    /\ UNCHANGED <<messages, intent, tools_called, evidence, policy_decision,
                   final_message, respond_in, path, last_batch, finished, invocations, rounds, error>>
    /\ UNCHANGED envVars

\* the command "clear"
Clear ==
    /\ pc = "prompt"
    /\ history # <<>>
    /\ history' = <<>>
    /\ turns' = 0
    /\ UNCHANGED <<runVars, clock, orders_file, products_file, tool_in, tool_out, seen, ncalls, first_run>>

\* the commands "exit", "quit", "bye"
Exit ==
    /\ pc = "prompt"
    /\ pc' = "exited"
    /\ UNCHANGED <<messages, intent, tools_called, evidence, policy_decision,
                   final_message, respond_in, path, last_batch, finished, invocations, rounds, error>>
    /\ UNCHANGED envVars

NextSession ==
    \/ TurnStarts
    \/ Router
    \/ Agent
    \/ ToolExecutor
    \/ PolicyGuard
    \/ Responder
    \/ RecursionLimitHit
    \/ TurnCompletes
    \/ TurnFails
    \/ Clear
    \/ Exit

SpecSession == InitSession /\ [][NextSession]_vars

-----------------------------------------------------------------------------
(* C1: for an order of the store created at T and a supplied reference     *)
(* time now (an instant, i.e. a parsable timestamp with an offset),        *)
(* order_cancel answers success = TRUE exactly when now - T <= 60 minutes; *)
(* past the window it answers success = FALSE with a reason that contains  *)
(* "60 minutes".                                                           *)

\* the call of tool_in has a supplied reference instant and names a stored order
CancelCaseOfC1 ==
    /\ tool_in.tool = "order_cancel"
    /\ tool_out # NoResult
    /\ orders_file.status = "ok"
    /\ \E i \in 1..Len(orders_file.orders) : orders_file.orders[i].order_id = tool_in.order_id
    /\ tool_in.simulated_now.kind = "iso"
    /\ fromisoformat(tool_in.simulated_now).ok
    /\ fromisoformat(tool_in.simulated_now).aware

ElapsedOfCall ==
    LET i == CHOOSE k \in 1..Len(orders_file.orders) :
                 orders_file.orders[k].order_id = tool_in.order_id
    IN  fromisoformat(tool_in.simulated_now).t - fromisoformat(orders_file.orders[i].created_at).t

C1_CancelBoundary ==
    CancelCaseOfC1 =>
        /\ "success" \in DOMAIN tool_out
        /\ tool_out.success <=> (ElapsedOfCall <= 3600)
        /\ ElapsedOfCall > 3600 =>
              /\ "reason" \in DOMAIN tool_out
              /\ Contains(tool_out.reason, <<"60", "minutes">>)

C1_Witness ==
    /\ CancelCaseOfC1
    /\ tool_in.order_id = A1003
    /\ ElapsedOfCall = 3600
    /\ tool_out.success

-----------------------------------------------------------------------------
(* Shared vocabulary of the run properties *)

Executed(node) == \E i \in 1..Len(path) : path[i] = node

TimesExecuted(node) == Cardinality({i \in 1..Len(path) : path[i] = node})

LastExecuted == IF path = <<>> THEN "none" ELSE Last(path)

\* evidence entry i is a policy-blocked result of order_cancel
BlockedCancelAt(i) ==
    /\ tools_called[i] = "order_cancel"
    /\ evidence[i].fmt = "json"
    /\ "success" \in DOMAIN evidence[i].data
    /\ "reason" \in DOMAIN evidence[i].data
    /\ evidence[i].data.success = FALSE

\* evidence entry i is a successful result of order_cancel
AllowedCancelAt(i) ==
    /\ tools_called[i] = "order_cancel"
    /\ evidence[i].fmt = "json"
    /\ "success" \in DOMAIN evidence[i].data
    /\ evidence[i].data.success = TRUE

-----------------------------------------------------------------------------
(* C2: in every reachable state of a run len(tools_called) =               *)
(* len(evidence), and both equal the number of individual tool             *)
(* invocations made in all tool rounds of the run so far: earlier rounds'  *)
(* entries are kept and extended, not replaced by the last round's.        *)

C2_Accumulation ==
    /\ Len(tools_called) = Len(evidence)
    /\ Len(tools_called) = invocations

C2_Witness ==
    /\ rounds = 2
    /\ invocations = 3
    /\ Len(last_batch) = 1
    /\ Len(tools_called) = 3

-----------------------------------------------------------------------------
(* C3: the executed nodes follow the graph's edges only.  Router is first  *)
(* and runs once; after Router comes Responder exactly when the intent is  *)
(* other, else Agent; after Agent comes ToolExecutor exactly when its      *)
(* message carries a tool request, else Responder; after ToolExecutor      *)
(* comes PolicyGuard or Agent; after PolicyGuard only Responder; after     *)
(* Responder only END.                                                     *)

GraphEdges ==
    { <<"router", "agent">>, <<"router", "responder">>,
      <<"agent", "tool_executor">>, <<"agent", "responder">>,
      <<"tool_executor", "policy_guard">>, <<"tool_executor", "agent">>,
      <<"policy_guard", "responder">>, <<"responder", "END">> }

C3_GraphEdges ==
    /\ \A i \in 1..Len(path) : (path[i] = "router") <=> (i = 1)
    /\ \A i \in 1..(Len(path) - 1) : <<path[i], path[i + 1]>> \in GraphEdges
    /\ path = <<>> => pc \in {"router", "failed"}
    /\ (path # <<>> /\ pc # "failed") =>
          /\ <<Last(path), pc>> \in GraphEdges
          /\ Last(path) = "router" => ((pc = "responder") <=> (intent = "other"))
          /\ Last(path) = "agent" =>
                ((pc = "tool_executor") <=> (Last(messages).tool_calls # <<>>))

C3_Witness ==
    /\ pc = "END"
    /\ path = <<"router", "agent", "tool_executor", "agent", "tool_executor",
                "policy_guard", "responder">>

-----------------------------------------------------------------------------
(* C4: after each ToolExecutor batch control goes to PolicyGuard exactly   *)
(* when the batch just executed includes order_cancel, and otherwise back  *)
(* to Agent, whatever the intent: an order_help run whose batch holds only *)
(* order_lookup returns to Agent.                                          *)

C4_RouteAfterTools ==
    (LastExecuted = "tool_executor" /\ pc # "failed") =>
        IF \E i \in 1..Len(last_batch) : last_batch[i] = "order_cancel"
        THEN pc = "policy_guard"
        ELSE pc = "agent"

C4_Witness ==
    /\ LastExecuted = "tool_executor"
    /\ intent = "order_help"
    /\ last_batch = <<"order_lookup">>
    /\ pc = "agent"

-----------------------------------------------------------------------------
(* C5: at the end of an order_help run in which order_cancel returned a    *)
(* policy-blocked result (success false, with a reason), the policy        *)
(* decision is a block: not allowed, carrying that non-empty reason.       *)

C5_BlockedDecision ==
    (pc = "END" /\ intent = "order_help") =>
        \A i \in 1..Len(evidence) :
            BlockedCancelAt(i) =>
                /\ policy_decision # NoDecision
                /\ policy_decision.cancel_allowed = FALSE
                /\ "reason" \in DOMAIN policy_decision
                /\ policy_decision.reason = evidence[i].data.reason
                /\ policy_decision.reason # <<>>

C5_Witness ==
    /\ pc = "END"
    /\ intent = "order_help"
    /\ \E i \in 1..Len(evidence) : BlockedCancelAt(i)
    /\ policy_decision = Blocked(PolicyReason)

-----------------------------------------------------------------------------
(* C6: once PolicyGuard has run in an order_help run whose evidence is     *)
(* non-empty and holds no blocked verdict (order_cancel succeeded, or no   *)
(* entry has the verdict shape), the decision is non-null and allowed.     *)

C6_AllowedDecision ==
    ( /\ Executed("policy_guard")
      /\ intent = "order_help"
      /\ evidence # <<>>
      /\ \A i \in 1..Len(evidence) :
            ~(VerdictShaped(evidence[i]) /\ evidence[i].data.success = FALSE) )
    => policy_decision = Allowed

-----------------------------------------------------------------------------
(* C7: while the intent is not order_help the policy decision is null in   *)
(* every state of the run, whatever the evidence holds and whichever path  *)
(* the run took.                                                           *)

C7_NotApplicable == intent # "order_help" => policy_decision = NoDecision

C7_Witness ==
    /\ intent = "product_assist"
    /\ Executed("policy_guard")
    /\ \E i \in 1..Len(evidence) : BlockedCancelAt(i)

-----------------------------------------------------------------------------
(* C8: every run terminates.  The Agent/ToolExecutor loop makes at most a  *)
(* fixed number of rounds however long the reasoning step keeps asking     *)
(* for tools, and a run that would go past the bound ends as a failure of  *)
(* the turn instead of looping on.                                         *)

MaxLoopRounds == (RecursionLimit - 1) \div 2

C8_Terminates ==
    /\ [](rounds <= MaxLoopRounds /\ Len(path) <= RecursionLimit)
    /\ [][(pc \in Nodes /\ Len(path) >= RecursionLimit)
             => (pc' = "failed" /\ error' = "GraphRecursionError")]_vars
    /\ <>(pc \in {"END", "failed"})

C8_Witness ==
    /\ rounds = MaxLoopRounds
    /\ pc = "failed"
    /\ error = "GraphRecursionError"

-----------------------------------------------------------------------------
(* C9: Responder runs exactly once in every completed run and is the last  *)
(* node before END; final_message is unset until Responder has run and is  *)
(* set at END; no other node writes final_message.                         *)

C9_ResponderOnce ==
    /\ [](pc = "END" =>
            /\ TimesExecuted("responder") = 1
            /\ Last(path) = "responder"
            /\ final_message # "unset")
    /\ [](~Executed("responder") => final_message = "unset")
    /\ [][final_message' # final_message => (pc = "responder" /\ pc' = "END")]_vars

C9_Witness ==
    /\ pc = "END"
    /\ Executed("tool_executor")
    /\ final_message = "reply"

-----------------------------------------------------------------------------
(* C10: the classifier never fails: whatever the utterance and whatever    *)
(* the generation fallback does (unparsable text, an object without a      *)
(* destination key, a destination outside the closed set, a failing call)  *)
(* Router completes and leaves intent in {product_assist, order_help,      *)
(* other}.                                                                 *)

C10_ClassifierTotal ==
    pc # "router" => (Executed("router") /\ intent \in Intents)
-----------------------------------------------------------------------------
(* C11: an utterance containing "discount code" is classified as other and *)
(* the run goes straight from Router to Responder: Agent, ToolExecutor and *)
(* PolicyGuard never execute and tools_called is empty at the end.         *)

DiscountCode == <<"d", "i", "s", "c", "o", "u", "n", "t", " ", "c", "o", "d", "e">>

\* the utterance the run was started for
Utterance == messages[1].content.chars

GuardrailRun ==
    /\ intent = "other"
    /\ path \in {<<"router">>, <<"router", "responder">>}
    /\ path = <<"router">> => pc \in {"responder", "failed"}   \* failed: Responder raised
    /\ tools_called = <<>>
    /\ evidence = <<>>

\* as claimed: for any utterance that contains "discount code"
C11_AnyDiscountCode ==
    (Contains(Utterance, DiscountCode) /\ Executed("router")) => GuardrailRun

\* as the rules are ordered: "discount code" in any letter case, and no
\* keyword of the order rule or of the product rule anywhere in the text
C11_GuardrailRoute ==
    ( /\ Contains(lower(Utterance), DiscountCode)
      /\ ~AnyKeyword(lower(Utterance), order_keywords)
      /\ ~AnyKeyword(lower(Utterance), product_keywords)
      /\ pc # "router" )
    => GuardrailRun

C11_Witness ==
    /\ Contains(lower(Utterance), DiscountCode)
    /\ ~Contains(Utterance, DiscountCode)
    /\ pc = "END"
    /\ path = <<"router", "responder">>
    /\ intent = "other"

-----------------------------------------------------------------------------
(* C12: repeated calls of order_cancel with the same arguments return the  *)
(* same success verdict, however often the call is repeated and whatever   *)
(* other tool calls - successful cancellations of the same order among     *)
(* them - are made between the repetitions.                                *)

Verdict(result) ==
    IF "success" \in DOMAIN result
    THEN (IF result.success THEN "success" ELSE "no success")
    ELSE "raised"

CancelsSeen == {c \in seen : c.call.name = "order_cancel"}

\* the reference time is an argument of the call, not read from the clock
TimeSupplied(call) == call.args.simulated_now.kind \notin {"none", "empty"}

\* as claimed: for every pair of calls with equal arguments
C12_SameVerdict ==
    \A a, b \in CancelsSeen : a.call = b.call => Verdict(a.result) = Verdict(b.result)

\* for every pair of calls with equal arguments that supply the reference time
C12_SameVerdictForSuppliedTime ==
    \A a, b \in CancelsSeen :
        (a.call = b.call /\ TimeSupplied(a.call)) => Verdict(a.result) = Verdict(b.result)

\* a call repeated two seconds later, another cancellation of the same order
\* having succeeded in between
C12_Witness ==
    LET X == Call("order_cancel", [order_id |-> A1003, simulated_now |-> Iso(1, 12, 55, 0, "Z")])
        Y == Call("order_cancel", [order_id |-> A1003, simulated_now |-> Iso(1, 12, 30, 0, "+00:00")])
    IN  /\ \E a \in seen : a.call = X /\ a.at = A1003Deadline /\ Verdict(a.result) = "success"
        /\ \E y \in seen : y.call = Y /\ y.at = A1003Deadline + 1 /\ Verdict(y.result) = "success"
        /\ \E b \in seen : b.call = X /\ b.at = A1003Deadline + 2 /\ Verdict(b.result) = "success"

-----------------------------------------------------------------------------
(* C13: no tool invocation changes the order store or the product store:   *)
(* whatever tools are called, a successful order_cancel included, both     *)
(* stores keep their initial contents.                                     *)

C13_StoresReadOnly ==
    [][orders_file' = orders_file /\ products_file' = products_file]_vars

C13_Witness ==
    /\ orders_file = OrdersFileOk
    /\ products_file = ProductsFileOk
    /\ \E c \in CancelsSeen : c.call.args.order_id = A1003 /\ Verdict(c.result) = "success"
    /\ \E c \in seen : c.call.name = "product_search" /\ "products" \in DOMAIN c.result
    /\ ncalls = MaxCalls

-----------------------------------------------------------------------------
(* C14: every tool invocation returns a result or a structured error and   *)
(* never raises, for every argument value (malformed id, email, postal     *)
(* code or timestamp, a reference timestamp with or without an offset) and *)
(* also when a store is unreadable or corrupt.                             *)

C14_ToolsNeverRaise == \A c \in seen : Verdict(c.result) # "raised"

-----------------------------------------------------------------------------
(* C15: when the reasoning step requests a tool name that is not in the    *)
(* registry the turn fails: the run ends as a failure, the unknown name is *)
(* not recorded in tools_called or evidence as if the tool had run, and    *)
(* there is no further reasoning round and no normal final reply.          *)

\* message k is a reply of the reasoning step that asks for an unknown tool
RequestsUnknownTool(k) ==
    /\ messages[k].role = "assistant"
    /\ \E i \in 1..Len(messages[k].tool_calls) :
          messages[k].tool_calls[i].name \notin ToolRegistry

C15_UnknownToolFails ==
    ( /\ \E k \in 1..Len(messages) : RequestsUnknownTool(k)
      /\ pc # "tool_executor" )
    => /\ pc = "failed"
       /\ \A i \in 1..Len(tools_called) : tools_called[i] \in ToolRegistry
       /\ Len(evidence) = Len(tools_called)

-----------------------------------------------------------------------------
(* C17: within a run the history only grows.  Every step leaves the        *)
(* messages it found as an unchanged prefix; Agent appends exactly one     *)
(* assistant message, ToolExecutor one tool-result message per request, in *)
(* the order of the requests; the other nodes append nothing.              *)

Ran(node) == path' = Append(path, node)

C17_AppendOnly ==
    [][ /\ Len(messages') >= Len(messages)
        /\ SubSeq(messages', 1, Len(messages)) = messages
        /\ Ran("agent") =>
              /\ Len(messages') = Len(messages) + 1
              /\ Last(messages').role = "assistant"
        /\ Ran("tool_executor") =>
              /\ Len(messages') = Len(messages) + Len(Last(messages).tool_calls)
              /\ \A i \in 1..Len(Last(messages).tool_calls) :
                    /\ messages'[Len(messages) + i].role = "tool"
                    /\ messages'[Len(messages) + i].tool_call_id = Last(messages).tool_calls[i].id
        /\ ~(Ran("agent") \/ Ran("tool_executor")) => messages' = messages
      ]_vars

C17_Witness ==
    /\ Len(messages) = 5
    /\ messages[1].role = "user"
    /\ messages[2].role = "assistant" /\ Len(messages[2].tool_calls) = 2
    /\ messages[3].role = "tool" /\ messages[4].role = "tool"
    /\ messages[5].role = "assistant"
    /\ path = <<"router", "agent", "tool_executor", "agent">>

-----------------------------------------------------------------------------
(* C18: intent is written once per run, by Router, before any other node   *)
(* executes; Agent, ToolExecutor, PolicyGuard and Responder never change   *)
(* it, so the intent at END is the intent Router set.                      *)

C18_IntentSetOnce ==
    /\ [](path = <<>> => intent = "unset")
    /\ [](path # <<>> => (path[1] = "router" /\ intent \in Intents))
    /\ [][intent' # intent => (intent = "unset" /\ path = <<>> /\ Ran("router"))]_vars
    /\ [][Ran("router") => intent' # intent]_vars

C18_Witness ==
    /\ pc = "END"
    /\ intent = "order_help"
    /\ path = <<"router", "agent", "tool_executor", "policy_guard", "responder">>

-----------------------------------------------------------------------------
(* C20: policy_decision is written at most once per run: PolicyGuard       *)
(* executes at most once, only directly after a ToolExecutor batch, and no *)
(* other node writes policy_decision.                                      *)

C20_DecisionWrittenOnce ==
    /\ [](TimesExecuted("policy_guard") <= 1)
    /\ [](\A i \in 1..Len(path) :
             path[i] = "policy_guard" => (i > 1 /\ path[i - 1] = "tool_executor"))
    /\ [][policy_decision' # policy_decision => Ran("policy_guard")]_vars

C20_Witness ==
    /\ pc = "END"
    /\ TimesExecuted("policy_guard") = 1
    /\ rounds = 2
    /\ policy_decision = Blocked(PolicyReason)

-----------------------------------------------------------------------------
(* C16: a failure raised during a run is caught by main()'s loop, which    *)
(* reports it and goes back to the prompt: a failed turn never ends the    *)
(* session (only a command at the prompt does), it leaves the session list *)
(* as it was, and the turns after it are processed as usual.               *)

IsUtterance(message) == message.role = "user" /\ "chars" \in DOMAIN message.content

C16_FailureIsPerTurn ==
    /\ [][pc = "failed" => (pc' = "prompt" /\ history' = history /\ turns' = turns)]_vars
    /\ [][pc' = "exited" => pc = "prompt"]_vars
    /\ [][(pc = "prompt" /\ pc' = "router") => (error' = "none" /\ path' = <<>>)]_vars

\* the first turn failed (its utterance has no reply), the second completed
C16_Witness ==
    /\ pc = "END"
    /\ turns = 2
    /\ Len(history) = 2
    /\ IsUtterance(history[1])
    /\ IsUtterance(history[2])
    /\ error = "none"
    /\ final_message = "reply"

-----------------------------------------------------------------------------
(* C19: every run of a session starts with intent, policy_decision and     *)
(* final_message unset and tools_called and evidence empty, whatever the   *)
(* earlier runs left in them, and with the messages the session recorded   *)
(* for the earlier turns, in their order, followed by the new utterance as *)
(* the last message.                                                       *)

C19_FreshRunState ==
    /\ [][(pc = "prompt" /\ pc' = "router") =>
            /\ intent' = "unset"
            /\ policy_decision' = NoDecision
            /\ final_message' = "unset"
            /\ tools_called' = <<>>
            /\ evidence' = <<>>
            /\ Len(messages') = Len(history) + 1
            /\ SubSeq(messages', 1, Len(history)) = history
            /\ IsUtterance(Last(messages'))
            /\ Last(messages').content.chars \in SessionUtterances]_vars
    /\ [][history' # history =>
            \/ pc = "prompt" /\ pc' = "prompt" /\ history' = <<>>        \* the command "clear"
            \/ /\ Len(history') = Len(history) + 1
               /\ SubSeq(history', 1, Len(history)) = history]_vars

\* the second run of a session starts, the first having completed
C19_Witness ==
    /\ pc = "router"
    /\ path = <<>>
    /\ turns = 2
    /\ Len(messages) = 3
    /\ messages[1] = HumanMessage(<<"H", "i">>)
    /\ ~IsUtterance(messages[2])
    /\ IsUtterance(messages[3])
    /\ intent = "unset"
    /\ evidence = <<>>

-----------------------------------------------------------------------------
(* C21: a batch of tool requests is answered as a whole and in request     *)
(* order.  Every request of an executed batch has exactly one tool message *)
(* that carries its call id and its output, the ids of a batch are         *)
(* distinct, the j-th tool message of the run is the j-th entry of         *)
(* evidence and its request's name the j-th entry of tools_called, and a   *)
(* step that appends results appends those of the whole batch, in whatever *)
(* order the invocations finished.                                         *)

\* positions of the replies of the reasoning step that carry tool requests
Batches == {k \in 1..Len(messages) : messages[k].role = "assistant" /\ messages[k].tool_calls # <<>>}

\* position of the j-th tool message of the run
NthToolMessage(j) ==
    CHOOSE k \in 1..Len(messages) :
        /\ messages[k].role = "tool"
        /\ Cardinality({m \in 1..k : messages[m].role = "tool"}) = j

\* the request that the tool message at position k answers, by position
RequestAnsweredAt(k) ==
    LET b == CHOOSE c \in Batches : c < k /\ \A d \in Batches : d < k => d <= c
    IN  messages[b].tool_calls[k - b]

BatchAnswered(k) ==
    LET tool_calls == messages[k].tool_calls
        n          == Len(tool_calls)
    IN  /\ \A i, j \in 1..n : tool_calls[i].id = tool_calls[j].id => i = j
        /\ \/ k = Len(messages) /\ pc \in {"tool_executor", "failed"}
           \/ /\ k + n <= Len(messages)
              /\ \A j \in 1..n :
                    messages[k + j] =
                        ToolMessage(ToolContent(orders_file, products_file, clock, tool_calls[j]),
                                    tool_calls[j].id)
              /\ k + n < Len(messages) => messages[k + n + 1].role = "assistant"

EvidenceAligned ==
    LET count == Cardinality({m \in 1..Len(messages) : messages[m].role = "tool"}) IN
    /\ Len(evidence) = count
    /\ Len(tools_called) = count
    /\ \A j \in 1..count :
          /\ evidence[j] = messages[NthToolMessage(j)].content
          /\ tools_called[j] = RequestAnsweredAt(NthToolMessage(j)).name
          /\ messages[NthToolMessage(j)].tool_call_id = RequestAnsweredAt(NthToolMessage(j)).id

-----------------------------------------------------------------------------
(* C22: the router's keyword rules are tried in a fixed order on the       *)
(* lower-cased question, a keyword counting wherever it occurs as a        *)
(* substring: an order keyword gives order_help whatever else occurs,      *)
(* else a product keyword gives product_assist, else a discount keyword    *)
(* gives other, and the generation fallback (whose reply may be any        *)
(* intent, or a failure) decides only when no keyword occurs.              *)

Question == Last(messages).content.chars

Mentions(keywords) == \E k \in 1..Len(keywords) : Contains(lower(Question), keywords[k])

FirstMatch ==
    IF Mentions(order_keywords) THEN "order_help"
    ELSE IF Mentions(product_keywords) THEN "product_assist"
    ELSE IF Mentions(guardrail_keywords) THEN "other"
    ELSE "none"

C22_FirstMatchOrder ==
    /\ [](deterministic_keyword_routing(Question) = FirstMatch)
    /\ [][(pc = "router" /\ FirstMatch # "none") =>
            (pc' # "failed" /\ intent' = FirstMatch)]_vars
    /\ [][(pc = "router" /\ (pc' = "failed" \/ intent' # FirstMatch)) =>
            (~Mentions(order_keywords) /\ ~Mentions(product_keywords)
                /\ ~Mentions(guardrail_keywords))]_vars

\* keywords of all three rules, the order keyword last and in capitals
C22_Witness ==
    /\ path = <<"router">>
    /\ Question = Phrase(<<"p", "r", "o", "m", "o">>, <<"S", "i", "z", "e">>, <<"R", "E", "F", "U", "N", "D">>)
    /\ intent = "order_help"

-----------------------------------------------------------------------------
(* C23: validate_order_id(s) is true exactly when s is the letter A        *)
(* followed by exactly four decimal digits and nothing else.               *)

ValidatedText(tool) == tool_in.tool = tool /\ tool_out # NoResult

\* the letter A, four digits, and no character after them
OrderIdForm(s) ==
    /\ Len(s) = 5
    /\ s[1] = "A"
    /\ \A i \in 2..5 : s[i] \in Digits

C23_OrderIdExact ==
    ValidatedText("validate_order_id") => (tool_out.valid <=> OrderIdForm(tool_in.text))

-----------------------------------------------------------------------------
(* C24: validate_email(s) is true exactly when s is a non-empty local part *)
(* of allowed characters, an @, a non-empty domain, a dot and a last label *)
(* of at least two letters, with nothing before or after.                  *)

EmailForm(s) ==
    \E at \in 2..Len(s) : \E dot \in (at + 2)..(Len(s) - 2) :
        /\ s[at] = "@"
        /\ s[dot] = "."
        /\ \A i \in 1..(at - 1) : s[i] \in LocalChars
        /\ \A i \in (at + 1)..(dot - 1) : s[i] \in DomainChars
        /\ \A i \in (dot + 1)..Len(s) : s[i] \in Letters

C24_EmailExact ==
    ValidatedText("validate_email") => (tool_out.valid <=> EmailForm(tool_in.text))

-----------------------------------------------------------------------------
(* C25: product_search returns at most 2 products and, when price_max is   *)
(* given, none that costs more, whichever of its passes supplied them; for *)
(* the query "midi dress" with price_max 120 over the catalog of the $95   *)
(* midi dress tagged {wedding, midi} and the $150 midi dress it returns    *)
(* the $95 dress alone.                                                    *)

Searched == tool_in.tool = "product_search" /\ tool_out # NoResult

-----------------------------------------------------------------------------
(* C26: whenever the responder generates the reply, the question it hands  *)
(* to the generation call is the user's utterance of the turn, whether the *)
(* responder was reached from the router, from the agent or from           *)
(* policy_guard.                                                           *)

C26_QuestionIsUtterance ==
    "question" \in DOMAIN respond_in => respond_in.question = messages[1].content

-----------------------------------------------------------------------------
(* C27: every order_cancel a run executes comes after an order_lookup for  *)
(* the same order executed in that run; in particular the first tool a run *)
(* executes is never order_cancel.                                         *)

\* the j-th request the run has executed
ExecutedRequest(j) == RequestAnsweredAt(NthToolMessage(j))

C27_LookupBeforeCancel ==
    \A j \in 1..Len(tools_called) :
        ExecutedRequest(j).name = "order_cancel" =>
            \E i \in 1..(j - 1) :
                /\ ExecutedRequest(i).name = "order_lookup"
                /\ ExecutedRequest(i).args.order_id = ExecutedRequest(j).args.order_id

-----------------------------------------------------------------------------
(* C28: in an order_help run the guard decides by the first evidence       *)
(* entry, in append order, that parses as an object with both a success    *)
(* and a reason key, passing over entries that do not parse or lack a key: *)
(* the decision is a block exactly when that entry has success false, and  *)
(* then carries that entry's reason unchanged.                             *)

HasVerdictKeys(i) ==
    /\ evidence[i].fmt = "json"
    /\ {"success", "reason"} \subseteq DOMAIN evidence[i].data

FirstVerdict == CHOOSE i \in 1..Len(evidence) :
                    HasVerdictKeys(i) /\ \A j \in 1..(i - 1) : ~HasVerdictKeys(j)

GuardDecided ==
    /\ Last(path) = "policy_guard"
    /\ intent = "order_help"
    /\ \E i \in 1..Len(evidence) : HasVerdictKeys(i)

C28_FirstVerdictDecides ==
    GuardDecided =>
        /\ policy_decision # NoDecision
        /\ (policy_decision.cancel_allowed = FALSE) <=> (evidence[FirstVerdict].data.success = FALSE)
        /\ policy_decision.cancel_allowed = FALSE =>
              policy_decision = Blocked(evidence[FirstVerdict].data.reason)

\* an entry without reason is passed over; of two verdicts the earlier decides
C28_Witness ==
    /\ GuardDecided
    /\ Len(evidence) = 3
    /\ FirstVerdict = 2
    /\ HasVerdictKeys(3)
    /\ evidence[3].data.reason # evidence[2].data.reason
    /\ policy_decision = Blocked(OtherReason)

-----------------------------------------------------------------------------
(* C29: order_cancel checks the order id format, then the access to the    *)
(* store, then that the order exists, then the supplied reference          *)
(* timestamp, and answers with the error of the first check that fails: a  *)
(* result with success false and an error field, never a policy verdict.   *)

CancelCalled == tool_in.tool = "order_cancel" /\ tool_out # NoResult

\* a reference timestamp was supplied and does not parse
TimestampUnparsable(ts) == ts.kind \notin {"none", "empty"} /\ ~fromisoformat(ts).ok

FirstFailingCheck ==
    IF ~OrderIdForm(tool_in.order_id) THEN "Invalid order ID format"
    ELSE IF orders_file.status # "ok" THEN "Unable to access order database"
    ELSE IF ~\E i \in 1..Len(orders_file.orders) :
                orders_file.orders[i].order_id = tool_in.order_id
         THEN "Order not found in the system"
    ELSE IF TimestampUnparsable(tool_in.simulated_now) THEN "Invalid timestamp format"
    ELSE "none"

C29_FirstFailingCheck ==
    (CancelCalled /\ FirstFailingCheck # "none") =>
        /\ DOMAIN tool_out = {"success", "error"}
        /\ tool_out.success = FALSE
        /\ tool_out.error = FirstFailingCheck

-----------------------------------------------------------------------------
(* C30: a policy-blocked result of order_cancel reports the minutes        *)
(* elapsed cut down to whole minutes, never rounded up, together with the  *)
(* fixed policy statement; a success result reports the minutes elapsed    *)
(* rounded to one decimal and a cancellation timestamp that is the         *)
(* resolved now.                                                           *)

\* the instant order_cancel resolves as now: the supplied one, else the clock
ResolvedNow ==
    IF tool_in.simulated_now.kind \in {"none", "empty"} THEN clock
    ELSE fromisoformat(tool_in.simulated_now).t

\* seconds from the creation of the order of the call to the resolved now
ElapsedSeconds ==
    LET i == CHOOSE k \in 1..Len(orders_file.orders) :
                 orders_file.orders[k].order_id = tool_in.order_id
    IN  ResolvedNow - fromisoformat(orders_file.orders[i].created_at).t

PolicyBlocked == CancelCalled /\ "reason" \in DOMAIN tool_out

Succeeded == CancelCalled /\ "success" \in DOMAIN tool_out /\ tool_out.success

C30_MinutesReported ==
    /\ PolicyBlocked =>
          /\ tool_out.minutes_since_order.whole * 60 <= ElapsedSeconds
          /\ ElapsedSeconds < (tool_out.minutes_since_order.whole + 1) * 60
          /\ tool_out.policy = PolicyStatement
    /\ Succeeded =>
          /\ 6 * tool_out.minutes_since_order.tenths - 3 <= ElapsedSeconds
          /\ ElapsedSeconds <= 6 * tool_out.minutes_since_order.tenths + 3
          /\ fromisoformat(tool_out.canceled_at).ok
          /\ fromisoformat(tool_out.canceled_at).t = ResolvedNow

\* 60 minutes 59 seconds after A1003 was placed: 60 is reported, not 61
C30_Witness ==
    /\ PolicyBlocked
    /\ tool_in.order_id = A1003
    /\ ElapsedSeconds = 3659
    /\ tool_out.minutes_since_order.whole = 60
    /\ tool_out.policy = PolicyStatement

-----------------------------------------------------------------------------
(* C31: a reply of the reasoning step that carries no structured tool      *)
(* request (plain text, a fenced block that is not JSON, a fenced object   *)
(* with a key missing) is taken as the final answer: no tool               *)
(* runs in that round, control goes from Agent to Responder, and no        *)
(* failure is raised.                                                      *)

\* the reply just given asks for no tool in the structured way
NoStructuredRequest(message) == message.role = "assistant" /\ message.tool_calls = <<>>

C31_UnparsedReplyIsFinal ==
    /\ [][ (Ran("agent") /\ NoStructuredRequest(Last(messages')))
             => /\ pc' = "responder"
                /\ error' = "none"
                /\ tools_called' = tools_called
                /\ evidence' = evidence
                /\ invocations' = invocations ]_vars
    /\ [][ (pc = "responder" /\ LastExecuted = "agent")
             => (Ran("responder") \/ pc' = "failed") ]_vars

\* after one tool round the reply writes a fenced object without tool_name
C31_Witness ==
    /\ pc = "END"
    /\ error = "none"
    /\ path = <<"router", "agent", "tool_executor", "agent", "responder">>
    /\ Last(messages).content.llm = "fenced_without_tool_name"
    /\ Len(tools_called) = 1

-----------------------------------------------------------------------------
(* C32: two runs for the same utterance whose generation outputs agree on  *)
(* the classified destination and, reply by reply, on the requested tools  *)
(* and arguments, but not on their wording, visit the same nodes in the    *)
(* same order and end with the same intent, tools_called, evidence and     *)
(* policy_decision.                                                        *)

\* the present run repeats a completed one in other words
Repeating ==
    /\ first_run # NoRun
    /\ \A k \in 1..Len(messages) :
          messages[k].role = "assistant" =>
             messages[k].content # first_run.messages[k].content

-----------------------------------------------------------------------------
(* C33: order_lookup hands back an order record only when a stored record  *)
(* matches both the id and the email given. It checks the form of the id   *)
(* first, then the form of the email, then whether the store can be read;  *)
(* in every other case it hands back an error object and no order data.    *)

LookupCalled == tool_in.tool = "order_lookup" /\ tool_out # NoResult

MatchesBoth(order) == order.order_id = tool_in.order_id /\ order.email = tool_in.email

ErrorOnly(result) == DOMAIN result = {"error"}

C33_LookupChecks ==
    LookupCalled =>
       IF ~OrderIdForm(tool_in.order_id) THEN tool_out = LookupError("Invalid order ID format")
       ELSE IF ~EmailForm(tool_in.email) THEN tool_out = LookupError("Invalid email format")
       ELSE IF orders_file.status # "ok" THEN tool_out = LookupError("Unable to access order database")
       ELSE IF \E i \in 1..Len(orders_file.orders) : MatchesBoth(orders_file.orders[i])
            THEN \E i \in 1..Len(orders_file.orders) :
                    MatchesBoth(orders_file.orders[i]) /\ tool_out = orders_file.orders[i]
            ELSE ErrorOnly(tool_out)

-----------------------------------------------------------------------------
(* C34: when product_search is called with tags, every product it returns  *)
(* carries all of the requested tags.                                      *)

RequestedTags == parse_tags(tool_in.tags)

CarriesAll(p) == \A i \in 1..Len(RequestedTags) : IsIn(RequestedTags[i], p.tags)

SearchedWithTags == Searched /\ tool_in.tags # <<>>

C34_AllTagsCarried ==
    SearchedWithTags => \A k \in 1..Len(tool_out.products) : CarriesAll(tool_out.products[k])

\* As the code has it: the products that carry all requested tags and are
\* within the price come first. When two or more exist, both products
\* returned carry all the tags; when fewer exist, each of them is returned,
\* ahead of whatever the fallback passes add.
FullMatches ==
    { i \in 1..Len(products_file.products) :
        /\ CarriesAll(products_file.products[i])
        /\ tool_in.price_max.given => products_file.products[i].price <= tool_in.price_max.v }

C34_FullMatchesFirst ==
    SearchedWithTags =>
       LET out == tool_out.products IN
       /\ Cardinality(FullMatches) >= 2 => \A k \in 1..Len(out) : CarriesAll(out[k])
       /\ Cardinality(FullMatches) < 2 =>
             \A i \in FullMatches : \E k \in 1..Len(out) : out[k] = products_file.products[i]
       /\ \A j, k \in 1..Len(out) : (j < k /\ CarriesAll(out[k])) => CarriesAll(out[j])

\* tags "wedding, midi" over the whole catalog: the $95 dress carries both,
\* the $150 dress that follows it carries midi alone
C34_Witness ==
    /\ SearchedWithTags
    /\ RequestedTags = <<TagWedding, TagMidi>>
    /\ Cardinality(FullMatches) = 1
    /\ Len(tool_out.products) = 2
    /\ tool_out.products[1] = Products[1]
    /\ ~CarriesAll(tool_out.products[2])
    /\ IsIn(TagMidi, tool_out.products[2].tags)

-----------------------------------------------------------------------------
(* C35: every message of the session history carries the role of the one   *)
(* who produced it: what the user typed has the user role, the agent's     *)
(* final reply the assistant role, a tool result the tool role, and the    *)
(* messages stand in the order in which they were produced.                *)

\* who produced a message of the history, told by the kind of its content
ProducedBy(message) ==
    IF "chars" \in DOMAIN message.content THEN "user"
    ELSE IF "llm" \in DOMAIN message.content THEN "assistant"
    ELSE "tool"

C35_RolesOfProducers ==
    /\ [](\A k \in 1..Len(history) : history[k].role = ProducedBy(history[k]))
    /\ [][history' = history \/ history' = <<>>
            \/ \E message \in {Last(history')} : history' = Append(history, message)]_vars

-----------------------------------------------------------------------------
(* C36: order_cancel appears only in the last tool batch a run executed.   *)
(* Whenever control goes back from ToolExecutor to Agent the accumulated    *)
(* tools_called holds no order_cancel, so deciding the route on the        *)
(* accumulated list and deciding it on the latest batch give the same node *)
(* in every reachable state.                                               *)

\* the route chosen by looking at the batch just executed only
RouteOnLatestBatch == IF IsIn("order_cancel", last_batch) THEN "policy_guard" ELSE "agent"

C36_CancelOnlyInLastBatch ==
    /\ [](\A i \in 1..Len(tools_called) :
             tools_called[i] = "order_cancel" => i > Len(tools_called) - Len(last_batch))
    /\ [](route_after_tools(intent, tools_called) = RouteOnLatestBatch)
    /\ [][(Ran("tool_executor") /\ pc' = "agent") => ~IsIn("order_cancel", tools_called')]_vars

\* a lookup, back to the agent, then the batch with the cancellation
C36_Witness ==
    /\ pc = "policy_guard"
    /\ path = <<"router", "agent", "tool_executor", "agent", "tool_executor">>
    /\ tools_called = <<"order_lookup", "eta", "order_lookup", "order_cancel">>
    /\ last_batch = <<"order_lookup", "order_cancel">>

-----------------------------------------------------------------------------
(* C37: when the reference time lies before the creation of the order, so  *)
(* that the elapsed time is negative, order_cancel returns success true:    *)
(* the policy sets no lower bound on the elapsed minutes.                   *)

\* the call got as far as comparing the resolved now with the creation time
Compared ==
    /\ CancelCalled
    /\ FirstFailingCheck = "none"
    /\ tool_in.simulated_now.kind \notin {"none", "empty"} => fromisoformat(tool_in.simulated_now).aware

C37_NoLowerBound ==
    (Compared /\ ElapsedSeconds < 0) =>
        /\ "success" \in DOMAIN tool_out
        /\ tool_out.success
        /\ "reason" \notin DOMAIN tool_out
        /\ tool_out.minutes_since_order.tenths <= 0

\* A1003 "cancelled" almost a day before it was placed
C37_Witness ==
    /\ Compared
    /\ tool_in.order_id = A1003
    /\ tool_in.simulated_now = Iso(0, 12, 5, 0, "Z")
    /\ ElapsedSeconds = 0 - (23 * 3600 + 50 * 60)
    /\ tool_out.success

-----------------------------------------------------------------------------
(* C38: for calls of order_cancel without a reference time, which read the *)
(* real clock, the verdict for an order is monotone over time: once a call *)
(* for the order is blocked, every later call for it is blocked; a success *)
(* may be followed by a block, a block never by a success.                 *)

\* the cancellations made so far that read the clock
ClockCancels == {c \in CancelsSeen : ~TimeSupplied(c.call)}

BlockedByPolicy(result) == "reason" \in DOMAIN result

C38_VerdictMonotone ==
    \A a, b \in ClockCancels :
        (/\ a.call.args.order_id = b.call.args.order_id
         /\ a.at <= b.at
         /\ BlockedByPolicy(a.result))
        => (BlockedByPolicy(b.result) /\ Verdict(b.result) # "success")

\* A1003 is cancelled at the sixtieth minute and refused a second later
C38_Witness ==
    \E a, b \in ClockCancels :
        /\ a.call.args.order_id = A1003
        /\ b.call.args.order_id = A1003
        /\ a.at = A1003Deadline
        /\ b.at = A1003Deadline + 1
        /\ Verdict(a.result) = "success"
        /\ BlockedByPolicy(b.result)
        /\ clock > b.at

-----------------------------------------------------------------------------
(* C39: when a run raises, main() has already appended the utterance of    *)
(* the turn to the session list and appends no reply for it. The utterance *)
(* stays in the list handed to every later turn of the conversation, and   *)
(* nothing of the failed run is stored as a completed result.              *)

RunInProgress == pc \in Nodes \cup {"END", "failed"}

C39_FailedTurnKeepsUtterance ==
    /\ [](pc = "failed" =>
             /\ history # <<>>
             /\ IsUtterance(Last(history))
             /\ messages[Len(history)] = Last(history)
             /\ final_message = "unset")
    /\ [][pc = "failed" => (history' = history /\ pc' = "prompt")]_vars
    /\ [](RunInProgress => IsPrefix(history, messages))
    /\ [][history' # history =>
             \/ pc = "prompt" /\ pc' = "prompt" /\ history' = <<>>
             \/ Len(history') = Len(history) + 1 /\ IsPrefix(history, history')]_vars

\* the first turn failed; its utterance was handed to the second turn, which
\* completed, and it stands in the list without a reply of its own
C39_Witness ==
    /\ pc = "prompt"
    /\ turns = 2
    /\ Len(history) = 3
    /\ IsUtterance(history[1])
    /\ IsUtterance(history[2])
    /\ history[3] = ReplyMessage("reply")
    /\ messages[1] = history[1]
    /\ messages[2] = history[2]

-----------------------------------------------------------------------------
(* C40: Router, PolicyGuard and Responder each write one field of the      *)
(* state and leave the others as they are: Router intent, PolicyGuard      *)
(* policy_decision, Responder final_message. None of them adds to or       *)
(* changes messages, evidence or tools_called, and evidence and            *)
(* tools_called are written by ToolExecutor alone.                         *)

C40_OneFieldPerNode ==
    /\ [][Ran("router") =>
             UNCHANGED <<messages, tools_called, evidence, policy_decision, final_message>>]_vars
    /\ [][Ran("policy_guard") =>
             UNCHANGED <<messages, intent, tools_called, evidence, final_message>>]_vars
    /\ [][Ran("responder") =>
             UNCHANGED <<messages, intent, tools_called, evidence, policy_decision>>]_vars
    /\ [][(evidence' # evidence \/ tools_called' # tools_called) => Ran("tool_executor")]_vars
    /\ [][(Ran("router") \/ Ran("policy_guard") \/ Ran("responder")) =>
             Cardinality({f \in {"intent", "policy_decision", "final_message"} :
                            \/ f = "intent" /\ intent' # intent
                            \/ f = "policy_decision" /\ policy_decision' # policy_decision
                            \/ f = "final_message" /\ final_message' # final_message}) <= 1]_vars

\* a completed run through all five nodes: three messages, one evidence
\* entry, and each of the three fields set by its node
C40_Witness ==
    /\ pc = "END"
    /\ path = <<"router", "agent", "tool_executor", "policy_guard", "responder">>
    /\ Len(messages) = 3
    /\ Len(evidence) = 1
    /\ tools_called = <<"order_cancel">>
    /\ intent = "order_help"
    /\ policy_decision = Blocked(PolicyReason)
    /\ final_message = "reply"

====
